---- MODULE Spec2Model ----
(***************************************************************************)
(* Request admission pipeline of src/middleware/core.py: tenant            *)
(* resolution, authentication, rate limiting, idempotent replay, audit     *)
(* logging and error normalization, composed by RequestProcessor.          *)
(*                                                                         *)
(* Python values are modelled as follows.  A dict is a function whose      *)
(* domain is its key set; a tuple is a sequence; time.time() and           *)
(* datetime.now() read the integer clock `now`; uuid.uuid4() returns the   *)
(* next value of a counter (fresh on every call).  `None` stands for       *)
(* Python's None where a string is expected and is distinct from every     *)
(* string the model draws; `NoneDict` stands for None where a dict is      *)
(* expected.                                                               *)
(***************************************************************************)
EXTENDS Integers, Sequences, FiniteSets, TLC

VARIABLES
    now,                \* the wall clock read by time.time() / datetime.now()
    uuid_counter,       \* number of uuid.uuid4() values handed out so far
    max_requests,       \* RateLimitingMiddleware.max_requests
    window_seconds,     \* RateLimitingMiddleware.window_seconds
    request_counts,     \* RateLimitingMiddleware.request_counts
    idempotency_store,  \* IdempotencyMiddleware.idempotency_store
    audit_log,          \* AuditLoggingMiddleware.audit_log
    verifier_calls,     \* tokens forwarded to auth_service.validate_token
    history,            \* every process_request call so far, with its outcome
    rl_trace,           \* every is_rate_limited call so far, with its outcome
    threads,            \* the position and locals of each concurrent caller
    trail,              \* the last get_audit_trail call, with its outcome
    tasks,              \* AsyncTaskService.tasks
    task_queue,         \* AsyncTaskService.task_queue, as task ids
    active_tasks,       \* AsyncTaskService.active_tasks, as task ids
    ready,              \* coroutines the event loop has scheduled, in order
    awaiting            \* executions suspended in their task's function

vars == <<now, uuid_counter, max_requests, window_seconds, request_counts,
          idempotency_store, audit_log, verifier_calls, history, rl_trace,
          threads, trail, tasks, task_queue, active_tasks, ready, awaiting>>

TaskVars == <<tasks, task_queue, active_tasks, ready, awaiting>>

(***************************************************************************)
(* Bounds of the model.                                                    *)
(***************************************************************************)
MaxTime == 5
MaxChecks == 5
MaxMaxRequests == 2
MaxWindow == 3
MaxCalls == 3
MaxClock == 2
NumThreads == 2
SmallMaxRequests == 2
SmallWindowSeconds == 2

(***************************************************************************)
(* Python values.                                                          *)
(***************************************************************************)
None == "<None>"
NoTrail == [kind |-> "none"]
NoneDict == [py |-> "None"]
EmptyDict == [k \in {} |-> None]

\* AsyncTaskService.__init__ (lines 51-54) on an idle event loop
NoTasks ==
    /\ tasks = EmptyDict
    /\ task_queue = <<>>
    /\ active_tasks = <<>>
    /\ ready = <<>>
    /\ awaiting = {}

DictGet(d, k, default) == IF k \in DOMAIN d THEN d[k] ELSE default

DictSet(d, k, v) == [x \in (DOMAIN d) \cup {k} |-> IF x = k THEN v ELSE d[x]]

(***************************************************************************)
(* RateLimitingMiddleware                                                  *)
(***************************************************************************)
ClientIds == {"c1", "c2"}

\* a call that cleans nothing up
CleanUpNothing(counts, t, window) == counts

\* lines 73-77: the dict comprehension that drops the old entries
CleanUp(counts, t, window) ==
    LET window_start == t - window
        kept == {key \in DOMAIN counts : counts[key][2] > window_start}
    IN  [key \in kept |-> counts[key]]

\* line 83, as a bug would have it: the limit is tested with > instead of >=
AtLimitOffByOne(count, maxr) == count > maxr

\* line 83: if count >= self.max_requests
AtLimit(count, maxr) == count >= maxr

\* lines 80-90: whether the check is rejected and, when it is admitted, the
\* record it writes for the key
decide(counts, client_id, t, maxr, window) ==
    IF client_id \in DOMAIN counts
    THEN LET count == counts[client_id][1]
             timestamp == counts[client_id][2]
         IN  IF t - timestamp < window
             THEN IF AtLimit(count, maxr)
                  THEN [limited |-> TRUE, record |-> counts[client_id]]
                  ELSE [limited |-> FALSE, record |-> <<count + 1, t>>]
             ELSE [limited |-> FALSE, record |-> <<1, t>>]
    ELSE [limited |-> FALSE, record |-> <<1, t>>]

\* a limiter whose rejected checks push the window forward
is_rate_limited_extending(counts, client_id, t, maxr, window) ==
    LET cleaned == CleanUp(counts, t, window)
        decision == decide(cleaned, client_id, t, maxr, window)
    IN  [limited |-> decision.limited,
         counts |-> IF decision.limited
                    THEN DictSet(cleaned, client_id,
                                 <<cleaned[client_id][1], t>>)
                    ELSE DictSet(cleaned, client_id, decision.record)]

\* a limiter that counts the rejected checks too
is_rate_limited_counting_rejected(counts, client_id, t, maxr, window) ==
    LET cleaned == CleanUp(counts, t, window)
        decision == decide(cleaned, client_id, t, maxr, window)
    IN  [limited |-> decision.limited,
         counts |-> IF decision.limited
                    THEN DictSet(cleaned, client_id,
                                 <<cleaned[client_id][1] + 1, t>>)
                    ELSE DictSet(cleaned, client_id, decision.record)]

\* lines 67-92: the returned flag and the dict the call leaves behind
is_rate_limited(counts, client_id, t, maxr, window) ==
    LET cleaned == CleanUp(counts, t, window)
        decision == decide(cleaned, client_id, t, maxr, window)
    IN  [limited |-> decision.limited,
         counts |-> IF decision.limited
                    THEN cleaned
                    ELSE DictSet(cleaned, client_id, decision.record)]

(***************************************************************************)
(* Strings that the code slices are sequences of characters.               *)
(***************************************************************************)
BearerPrefix == <<"B", "e", "a", "r", "e", "r", " ">>

StartsWith(s, prefix) ==
    /\ Len(s) >= Len(prefix)
    /\ SubSeq(s, 1, Len(prefix)) = prefix

(***************************************************************************)
(* AuthService (src/services/auth/service.py), the AuthVerifier.           *)
(* jwt.decode is the library call: a token either decodes to the payload   *)
(* generate_token signed, or has expired, or is invalid.                   *)
(***************************************************************************)
TokenU1 == <<"t", "1">>
TokenU2 == <<"t", "2">>
TokenExpired == <<"o", "l", "d">>
\* tokens of two users whose ids are "a:b" and "a"
TokenColon == <<"t", "3">>
TokenPlain == <<"t", "4">>

\* the payload generate_token builds for a user, its roles and its tenant
TokenPayload(user_id, roles, org_id) ==
    [user_id |-> user_id, roles |-> roles, org_id |-> org_id,
     exp |-> 24, iat |-> 0, type |-> "access"]

jwt_decode(token) ==
    IF token = TokenU1
    THEN [status |-> "ok", payload |-> TokenPayload("u1", <<"learner">>, "org1")]
    ELSE IF token = TokenU2
    THEN [status |-> "ok", payload |-> TokenPayload("u2", <<"admin">>, "org2")]
    ELSE IF token = TokenColon
    THEN [status |-> "ok", payload |-> TokenPayload("a:b", <<"learner">>, "org1")]
    ELSE IF token = TokenPlain
    THEN [status |-> "ok", payload |-> TokenPayload("a", <<"learner">>, "org1")]
    ELSE IF token = TokenExpired
    THEN [status |-> "ExpiredSignatureError", payload |-> NoneDict]
    ELSE [status |-> "InvalidTokenError", payload |-> NoneDict]

validate_token(token) ==
    LET decoded == jwt_decode(token)
    IN  IF decoded.status = "ok" THEN decoded.payload ELSE NoneDict

\* Python truth value of an Optional[dict]
TruthyDict(d) == d # NoneDict /\ DOMAIN d # {}

\* Python truth value of an Optional[str]
TruthyStr(s) == s # None /\ s # ""

(***************************************************************************)
(* OrganizationTenantMiddleware                                            *)
(***************************************************************************)
\* line 30: a or b
PyOr(a, b) == IF TruthyStr(a) THEN a ELSE b

\* a resolver that looks at the alias header first
default_org_resolver_alias_first(request_headers) ==
    PyOr(DictGet(request_headers, "X-Tenant-ID", None),
         DictGet(request_headers, "X-Organization-ID", None))

\* line 30
default_org_resolver(request_headers) ==
    PyOr(DictGet(request_headers, "X-Organization-ID", None),
         DictGet(request_headers, "X-Tenant-ID", None))

resolve_organization(request_headers) == default_org_resolver(request_headers)

(***************************************************************************)
(* AuthenticationMiddleware                                                *)
(***************************************************************************)
\* line 50 cutting one character short: the blank that ends the prefix
\* stays at the head of the token
authenticate_request_short_cut(request_headers) ==
    LET auth_header == DictGet(request_headers, "Authorization", <<>>)
    IN  IF auth_header = <<>> \/ ~StartsWith(auth_header, BearerPrefix)
        THEN [payload |-> NoneDict, forwarded |-> <<>>]
        ELSE LET token == SubSeq(auth_header, 7, Len(auth_header))
                 token_payload == validate_token(token)
             IN  IF ~TruthyDict(token_payload)
                 THEN [payload |-> NoneDict, forwarded |-> <<token>>]
                 ELSE [payload |-> token_payload, forwarded |-> <<token>>]

\* lines 43-56: the payload returned and the tokens handed to the verifier
authenticate_request(request_headers) ==
    LET auth_header == DictGet(request_headers, "Authorization", <<>>)
    IN  IF auth_header = <<>> \/ ~StartsWith(auth_header, BearerPrefix)
        THEN [payload |-> NoneDict, forwarded |-> <<>>]
        ELSE LET token == SubSeq(auth_header, 8, Len(auth_header))
                 token_payload == validate_token(token)
             IN  IF ~TruthyDict(token_payload)
                 THEN [payload |-> NoneDict, forwarded |-> <<token>>]
                 ELSE [payload |-> token_payload, forwarded |-> <<token>>]

(***************************************************************************)
(* IdempotencyMiddleware                                                   *)
(***************************************************************************)
check_idempotency(store, idempotency_key) ==
    DictGet(store, idempotency_key, NoneDict)

store_result(store, idempotency_key, result) ==
    DictSet(store, idempotency_key, result)

(***************************************************************************)
(* CorrelationMiddleware and LocaleTimezoneMiddleware                      *)
(***************************************************************************)
\* str(uuid.uuid4()) for the n-th value handed out
Uuid4(n) == "uuid-" \o ToString(n)

generate_correlation_id(n) == Uuid4(n)

detect_locale(request_headers) ==
    DictGet(request_headers, "Accept-Language", "en-US")

detect_timezone(request_headers) ==
    DictGet(request_headers, "X-Timezone", "UTC")

(***************************************************************************)
(* Exceptions: a raised exception is its class name and its args.  Mro     *)
(* lists the classes an exception is an instance of.                       *)
(***************************************************************************)
Raise(type, msg) == [type |-> type, args |-> <<msg>>]

Mro(type) ==
    IF type \in {"PermissionError", "FileNotFoundError"}
    THEN {type, "OSError", "Exception"}
    ELSE IF type = "JSONDecodeError"
    THEN {type, "ValueError", "Exception"}
    ELSE {type, "Exception"}

IsInstance(error, class) == class \in Mro(error.type)

\* str(error) of an exception raised with one argument
Str(error) == IF Len(error.args) = 1 THEN error.args[1] ELSE ""

\* datetime.isoformat(): the text of the instant, not the instant
IsoFormat(t) == "T+" \o ToString(t)

MsgTenant == "Organization ID is required"
MsgAuth == "Authentication required"
MsgRate == "Rate limit exceeded"
MsgNoneGet == "'NoneType' object has no attribute 'get'"
MsgNotSerializable == "Object of type bytes is not JSON serializable"

(***************************************************************************)
(* GlobalErrorNormalizationMiddleware                                      *)
(***************************************************************************)
\* the categories with the catch-all branch gone: what is not recognized is
\* answered like a MiddlewareException
categorize_no_catch_all(error) ==
    IF IsInstance(error, "ValueError")
    THEN [category |-> "validation_error", status_code |-> 400]
    ELSE IF IsInstance(error, "PermissionError")
    THEN [category |-> "authorization_error", status_code |-> 403]
    ELSE IF IsInstance(error, "FileNotFoundError")
    THEN [category |-> "resource_not_found", status_code |-> 404]
    ELSE [category |-> "middleware_error", status_code |-> 400]

\* lines 218-232: the category and the status code of an error
categorize(error) ==
    IF IsInstance(error, "MiddlewareException")
    THEN [category |-> "middleware_error", status_code |-> 400]
    ELSE IF IsInstance(error, "ValueError")
    THEN [category |-> "validation_error", status_code |-> 400]
    ELSE IF IsInstance(error, "PermissionError")
    THEN [category |-> "authorization_error", status_code |-> 403]
    ELSE IF IsInstance(error, "FileNotFoundError")
    THEN [category |-> "resource_not_found", status_code |-> 404]
    ELSE [category |-> "system_error", status_code |-> 500]

\* lines 212-246; n is the number of uuids handed out before the call
normalize_error(error, context, n, t) ==
    [error_id |-> Uuid4(n),
     timestamp |-> IsoFormat(t),
     type |-> error.type,
     category |-> categorize(error).category,
     message |-> Str(error),
     context |-> context,
     status_code |-> categorize(error).status_code,
     details |-> [args |-> error.args, str |-> Str(error)]]

(***************************************************************************)
(* AuditLoggingMiddleware                                                  *)
(***************************************************************************)
\* A request body is a dict with one-character keys and one-digit values,
\* or a bytes object, which json.dumps rejects.
BytesBody == [bytes |-> <<120>>]

IsJsonSerializable(body) == "bytes" \notin DOMAIN body

\* len(json.dumps(body)): "{}" or '{"a": 1, "b": 2}'
JsonDumpsLen(body) ==
    LET n == Cardinality(DOMAIN body)
    IN  IF n = 0 THEN 2 ELSE 10 * n

\* lines 178-190: the entry log_request builds
audit_entry(request_data, user_id, org_id, action, t) ==
    [timestamp |-> t,
     correlation_id |-> DictGet(request_data, "correlation_id", None),
     user_id |-> user_id,
     org_id |-> org_id,
     action |-> action,
     endpoint |-> DictGet(request_data, "endpoint", None),
     method |-> DictGet(request_data, "method", None),
     ip_address |-> DictGet(request_data, "ip_address", None),
     user_agent |-> DictGet(request_data, "user_agent", None),
     request_size |-> JsonDumpsLen(DictGet(request_data, "body", EmptyDict)),
     status_code |-> DictGet(request_data, "status_code", 200)]

\* a log that takes the new entry at its head
log_request_prepend(log, request_data, user_id, org_id, action, t) ==
    IF IsJsonSerializable(DictGet(request_data, "body", EmptyDict))
    THEN [raised |-> FALSE,
          log |-> <<audit_entry(request_data, user_id, org_id, action, t)>>
                      \o log]
    ELSE [raised |-> TRUE, log |-> log,
          error |-> Raise("TypeError", MsgNotSerializable)]

\* lines 175-192: the log after the call, or the TypeError of json.dumps
log_request(log, request_data, user_id, org_id, action, t) ==
    IF IsJsonSerializable(DictGet(request_data, "body", EmptyDict))
    THEN [raised |-> FALSE,
          log |-> Append(log, audit_entry(request_data, user_id, org_id,
                                          action, t))]
    ELSE [raised |-> TRUE, log |-> log,
          error |-> Raise("TypeError", MsgNotSerializable)]

(***************************************************************************)
(* RequestProcessor.process_request                                        *)
(***************************************************************************)
\* how a call ends: with a returned value or with an exception that escapes
Return(value) == [kind |-> "return", value |-> value]

Escape(error) == [kind |-> "raise", error |-> error]

\* f"{value}" of an Optional[str]
FStr(value) == IF value = None THEN "None" ELSE value

\* the local variables of process_request that the except clause looks up
NoLocals == [bound |-> {}, correlation_id |-> None, org_id |-> None,
             auth_payload |-> NoneDict]

\* line 287, as a bug would have it: the tenant check never fails
tenant_missing_never(org_id) == FALSE

\* line 287: if not org_id
tenant_missing(org_id) == ~TruthyStr(org_id)

\* lines 351-374: the except clause.  It yields how the call ends, the audit
\* log and the uuid counter it leaves.  Line 365 calls auth_payload.get
\* whenever the local auth_payload is bound, also when it is bound to None.
except_handler(raw_request, e, locals, log, n, t) ==
    LET error_response == normalize_error(e, "Request Processing", n, t)
        request_data ==
            [correlation_id |-> IF "correlation_id" \in locals.bound
                                THEN locals.correlation_id ELSE None,
             endpoint |-> DictGet(raw_request, "endpoint", ""),
             method |-> DictGet(raw_request, "method", ""),
             ip_address |-> DictGet(raw_request, "ip_address", ""),
             user_agent |-> DictGet(raw_request, "user_agent", ""),
             status_code |-> error_response.status_code]
        org_id == IF "org_id" \in locals.bound THEN locals.org_id ELSE None
        action == DictGet(raw_request, "method", "UNKNOWN") \o " "
                      \o DictGet(raw_request, "endpoint", "UNKNOWN")
    IN  IF "auth_payload" \in locals.bound /\ locals.auth_payload = NoneDict
        THEN [outcome |-> Escape(Raise("AttributeError", MsgNoneGet)),
              log |-> log, uuid |-> n + 1]
        ELSE LET user_id == IF "auth_payload" \in locals.bound
                            THEN DictGet(locals.auth_payload, "user_id", None)
                            ELSE None
                 logged == log_request(log, request_data, user_id, org_id,
                                       action, t)
             IN  [outcome |-> Return(
                      [success |-> FALSE,
                       error |-> error_response,
                       message |-> "Request failed middleware processing"]),
                  log |-> logged.log, uuid |-> n + 1]

\* the state a call leaves and how it ends; path names the place where the
\* call left the try block
Ran(path, handled, counts, store, forwarded) ==
    [path |-> path, outcome |-> handled.outcome, counts |-> counts,
     store |-> store, log |-> handled.log, uuid |-> handled.uuid,
     forwarded |-> forwarded]

\* an except clause that stores the failure under the request's key
FailedStored(path, raw_request, e, locals, log, n, t, counts, store, forwarded) ==
    [done |-> TRUE,
     ran |-> Ran(path, except_handler(raw_request, e, locals, log, n, t),
                 counts,
                 IF /\ raw_request.headers # NoneDict
                    /\ "Idempotency-Key" \in DOMAIN raw_request.headers
                 THEN store_result(
                          store, raw_request.headers["Idempotency-Key"],
                          except_handler(raw_request, e, locals, log, n, t)
                              .outcome)
                 ELSE store,
                 forwarded)]

\* a call that ended in the except clause reached from `path`
Failed(path, raw_request, e, locals, log, n, t, counts, store, forwarded) ==
    [done |-> TRUE,
     ran |-> Ran(path, except_handler(raw_request, e, locals, log, n, t),
                 counts, store, forwarded)]

\* lines 270-272: the header's correlation id, or a generated one
correlation_id(headers, n) ==
    IF TruthyStr(DictGet(headers, "X-Correlation-ID", None))
    THEN headers["X-Correlation-ID"]
    ELSE generate_correlation_id(n)

\* lines 270-272: the uuids handed out once the correlation id is known
uuids_after_correlation(headers, n) ==
    IF TruthyStr(DictGet(headers, "X-Correlation-ID", None)) THEN n ELSE n + 1

\* lines 275-283
request_context(raw_request, headers, id) ==
    [correlation_id |-> id,
     headers |-> headers,
     body |-> DictGet(raw_request, "body", EmptyDict),
     method |-> DictGet(raw_request, "method", "GET"),
     endpoint |-> DictGet(raw_request, "endpoint", ""),
     ip_address |-> DictGet(raw_request, "ip_address", ""),
     user_agent |-> DictGet(raw_request, "user_agent", "")]

\* line 299: client_id = f"{user_id}:{request_context['ip_address']}"
client_id_of(auth_payload, raw_request) ==
    FStr(DictGet(auth_payload, "user_id", None)) \o ":"
        \o DictGet(raw_request, "ip_address", "")

\* the rate limit stage as it would be behind the idempotency check: a
\* request whose key holds a stored result is neither counted nor rejected
admit_rate_limit_late(raw_request, st, headers, id, n, org_id, auth, rl) ==
    IF /\ rl.limited
       /\ ~TruthyDict(check_idempotency(
               st.store, DictGet(headers, "Idempotency-Key", None)))
    THEN Failed("rate", raw_request, Raise("MiddlewareException", MsgRate),
                [bound |-> {"correlation_id", "org_id", "auth_payload"},
                 correlation_id |-> id, org_id |-> org_id,
                 auth_payload |-> auth.payload],
                st.log, n, st.t, rl.counts, st.store, auth.forwarded)
    ELSE [done |-> FALSE,
          n |-> n,
          request_context |-> request_context(raw_request, headers, id),
          org_id |-> org_id,
          user_id |-> DictGet(auth.payload, "user_id", None),
          user_roles |-> DictGet(auth.payload, "roles", <<>>),
          locals |-> [bound |-> {"correlation_id", "org_id", "auth_payload"},
                      correlation_id |-> id, org_id |-> org_id,
                      auth_payload |-> auth.payload],
          counts |-> IF TruthyDict(check_idempotency(
                            st.store,
                            DictGet(headers, "Idempotency-Key", None)))
                     THEN st.counts
                     ELSE rl.counts,
          forwarded |-> auth.forwarded,
          idempotency_key |-> DictGet(headers, "Idempotency-Key", None)]

\* lines 298-301: the rate limit stage; rl is what is_rate_limited yields.
\* A request that passes goes on with the locals of the later stages.
admit_rate_limit(raw_request, st, headers, id, n, org_id, auth, rl) ==
    IF rl.limited
    THEN Failed("rate", raw_request, Raise("MiddlewareException", MsgRate),
                [bound |-> {"correlation_id", "org_id", "auth_payload"},
                 correlation_id |-> id, org_id |-> org_id,
                 auth_payload |-> auth.payload],
                st.log, n, st.t, rl.counts, st.store, auth.forwarded)
    ELSE [done |-> FALSE,
          n |-> n,
          request_context |-> request_context(raw_request, headers, id),
          org_id |-> org_id,
          user_id |-> DictGet(auth.payload, "user_id", None),
          user_roles |-> DictGet(auth.payload, "roles", <<>>),
          locals |-> [bound |-> {"correlation_id", "org_id", "auth_payload"},
                      correlation_id |-> id, org_id |-> org_id,
                      auth_payload |-> auth.payload],
          counts |-> rl.counts,
          forwarded |-> auth.forwarded,
          idempotency_key |-> DictGet(headers, "Idempotency-Key", None)]

\* the authentication stage as it would be with the rate limit taken before
\* the credential is judged: a rejected request is counted too
admit_authentication_counted(raw_request, st, headers, id, n, org_id, auth) ==
    IF ~TruthyDict(auth.payload)
    THEN Failed("auth", raw_request, Raise("MiddlewareException", MsgAuth),
                [bound |-> {"correlation_id", "org_id", "auth_payload"},
                 correlation_id |-> id, org_id |-> org_id,
                 auth_payload |-> auth.payload],
                st.log, n, st.t,
                is_rate_limited(st.counts,
                                client_id_of(auth.payload, raw_request),
                                st.t, st.maxr, st.window).counts,
                st.store, auth.forwarded)
    ELSE admit_rate_limit(raw_request, st, headers, id, n, org_id, auth,
             is_rate_limited(st.counts, client_id_of(auth.payload, raw_request),
                             st.t, st.maxr, st.window))

\* lines 290-296: the authentication stage; auth is what
\* authenticate_request yields
admit_authentication(raw_request, st, headers, id, n, org_id, auth) ==
    IF ~TruthyDict(auth.payload)
    THEN Failed("auth", raw_request, Raise("MiddlewareException", MsgAuth),
                [bound |-> {"correlation_id", "org_id", "auth_payload"},
                 correlation_id |-> id, org_id |-> org_id,
                 auth_payload |-> auth.payload],
                st.log, n, st.t, st.counts, st.store, auth.forwarded)
    ELSE admit_rate_limit(raw_request, st, headers, id, n, org_id, auth,
             is_rate_limited(st.counts, client_id_of(auth.payload, raw_request),
                             st.t, st.maxr, st.window))

\* lines 285-288: the tenant stage
admit_tenant(raw_request, st, headers, id, n, org_id) ==
    IF tenant_missing(org_id)
    THEN Failed("tenant", raw_request,
                Raise("MiddlewareException", MsgTenant),
                [bound |-> {"correlation_id", "org_id"},
                 correlation_id |-> id, org_id |-> org_id,
                 auth_payload |-> NoneDict],
                st.log, n, st.t, st.counts, st.store, <<>>)
    ELSE admit_authentication(raw_request, st, headers, id, n, org_id,
                              authenticate_request(headers))

\* lines 268-283: the correlation id; line 270 raises when headers is None,
\* before any local is bound
admit_headers(raw_request, st, headers) ==
    IF headers = NoneDict
    THEN Failed("error", raw_request, Raise("AttributeError", MsgNoneGet),
                NoLocals, st.log, st.uuid, st.t, st.counts, st.store, <<>>)
    ELSE admit_tenant(raw_request, st, headers,
                      correlation_id(headers, st.uuid),
                      uuids_after_correlation(headers, st.uuid),
                      resolve_organization(headers))

\* lines 268-301: correlation id, tenant, authentication, rate limit.  st
\* holds the fields of the processor's middleware objects and the clock:
\* counts, store, log, uuid, t, maxr, window.  The result is either a
\* finished call (done) or the locals the later stages go on with.
admit(raw_request, st) ==
    admit_headers(raw_request, st, DictGet(raw_request, "headers", EmptyDict))

\* lines 311-323: the enriched context built from the admitted request
enriched_context(adm) ==
    [correlation_id |-> adm.request_context.correlation_id,
     headers |-> adm.request_context.headers,
     body |-> adm.request_context.body,
     method |-> adm.request_context.method,
     endpoint |-> adm.request_context.endpoint,
     ip_address |-> adm.request_context.ip_address,
     user_agent |-> adm.request_context.user_agent,
     user_id |-> adm.user_id,
     org_id |-> adm.org_id,
     roles |-> adm.user_roles,
     locale |-> detect_locale(adm.request_context.headers),
     timezone |-> detect_timezone(adm.request_context.headers),
     authenticated |-> TRUE]

\* lines 326-339: the audit entry of a request that passed every stage
log_success(adm, log, t) ==
    log_request(
        log,
        [correlation_id |-> adm.request_context.correlation_id,
         endpoint |-> adm.request_context.endpoint,
         method |-> adm.request_context.method,
         ip_address |-> adm.request_context.ip_address,
         user_agent |-> adm.request_context.user_agent,
         body |-> adm.request_context.body,
         status_code |-> 200],
        adm.user_id, adm.org_id,
        adm.request_context.method \o " " \o adm.request_context.endpoint,
        t)

\* lines 345-349: the value of a call that passed every stage
success_value(adm) ==
    [success |-> TRUE,
     context |-> enriched_context(adm),
     message |-> "Request processed successfully through all middleware"]

\* a check that never finds a stored result
replayed_never(adm, store) == NoneDict

\* lines 304-308: the stored result that short-circuits the call, if any
replayed(adm, store) ==
    IF TruthyStr(adm.idempotency_key)
    THEN check_idempotency(store, adm.idempotency_key)
    ELSE NoneDict

\* the last stages with line 342's test of the key gone: the result is
\* stored whether or not the request carries a key
finish_store_always(raw_request, st, adm, logged) ==
    IF logged.raised
    THEN Ran("error",
             except_handler(raw_request, logged.error, adm.locals, st.log,
                            adm.n, st.t),
             adm.counts, st.store, adm.forwarded)
    ELSE Ran("success",
             [outcome |-> Return(success_value(adm)), log |-> logged.log,
              uuid |-> adm.n],
             adm.counts,
             store_result(st.store, adm.idempotency_key,
                          enriched_context(adm)),
             adm.forwarded)

\* lines 326-349: the audit append, the store and the return; logged is
\* what log_request yields
finish(raw_request, st, adm, logged) ==
    IF logged.raised
    THEN Ran("error",
             except_handler(raw_request, logged.error, adm.locals, st.log,
                            adm.n, st.t),
             adm.counts, st.store, adm.forwarded)
    ELSE Ran("success",
             [outcome |-> Return(success_value(adm)), log |-> logged.log,
              uuid |-> adm.n],
             adm.counts,
             IF TruthyStr(adm.idempotency_key)
             THEN store_result(st.store, adm.idempotency_key,
                               enriched_context(adm))
             ELSE st.store,
             adm.forwarded)

\* the stages after admission with a store that is scoped by tenant: a
\* stored result answers only a request of the tenant that stored it
complete_tenant_scoped(raw_request, st, adm) ==
    IF adm.done
    THEN adm.ran
    ELSE IF /\ TruthyDict(replayed(adm, st.store))
            /\ replayed(adm, st.store).org_id = adm.org_id
    THEN Ran("replay",
             [outcome |-> Return(replayed(adm, st.store)), log |-> st.log,
              uuid |-> adm.n],
             adm.counts, st.store, adm.forwarded)
    ELSE finish(raw_request, st, adm, log_success(adm, st.log, st.t))

\* lines 303-349: the stages after admission
complete(raw_request, st, adm) ==
    IF adm.done
    THEN adm.ran
    ELSE IF TruthyDict(replayed(adm, st.store))
    THEN \* line 308: return cached_result
         Ran("replay",
             [outcome |-> Return(replayed(adm, st.store)), log |-> st.log,
              uuid |-> adm.n],
             adm.counts, st.store, adm.forwarded)
    ELSE finish(raw_request, st, adm, log_success(adm, st.log, st.t))

\* lines 266-374
process_request(raw_request, st) ==
    complete(raw_request, st, admit(raw_request, st))

(***************************************************************************)
(* Initial states.                                                         *)
(***************************************************************************)
\* RateLimitingMiddleware.__init__ with the constructor's two parameters
InitRL ==
    /\ now = 0
    /\ uuid_counter = 0
    /\ max_requests \in 0..MaxMaxRequests
    /\ window_seconds \in 1..MaxWindow
    /\ request_counts = EmptyDict
    /\ idempotency_store = EmptyDict
    /\ audit_log = <<>>
    /\ verifier_calls = <<>>
    /\ history = <<>>
    /\ rl_trace = <<>>
    /\ threads = EmptyDict
    /\ trail = NoTrail
    /\ NoTasks

\* RequestProcessor.__init__.  The limiter's two fields hold small values
\* in place of the defaults 100 and 3600, so that a run reaches the limit
\* and the end of a window.
Init ==
    /\ now = 0
    /\ uuid_counter = 0
    /\ max_requests = SmallMaxRequests
    /\ window_seconds = SmallWindowSeconds
    /\ request_counts = EmptyDict
    /\ idempotency_store = EmptyDict
    /\ audit_log = <<>>
    /\ verifier_calls = <<>>
    /\ history = <<>>
    /\ rl_trace = <<>>
    /\ threads = EmptyDict
    /\ trail = NoTrail
    /\ NoTasks

\* the clock advances between calls
AdvanceClock(limit) ==
    /\ now < limit
    /\ now' = now + 1
    /\ UNCHANGED <<TaskVars, trail, uuid_counter, max_requests, window_seconds,
                   request_counts,
                   idempotency_store, audit_log, verifier_calls, history,
                   rl_trace, threads>>

Tick == AdvanceClock(MaxClock)

RLTick == AdvanceClock(MaxTime)

(***************************************************************************)
(* The raw requests the model draws.                                       *)
(***************************************************************************)
BaseRequest ==
    [method |-> "POST", endpoint |-> "/items", ip_address |-> "1.2.3.4",
     user_agent |-> "ua"]

HOrg1 == "X-Organization-ID" :> "org1"
HOrg2 == "X-Tenant-ID" :> "org2"
HOrgEmpty == "X-Tenant-ID" :> ""
HBearer(token) == "Authorization" :> (BearerPrefix \o token)
HBasic == "Authorization" :> <<"B", "a", "s", "i", "c", " ", "x">>
HKey == "Idempotency-Key" :> "k1"
HCorrelation == "X-Correlation-ID" :> "c1"

Body1 == "a" :> 1
Body2 == ("a" :> 1) @@ ("b" :> 2)

WithHeaders(headers) == ("headers" :> headers) @@ BaseRequest

WithBody(headers, body) == ("body" :> body) @@ WithHeaders(headers)

\* the same request sent with another method to another endpoint
WithMethod(raw_request, method, endpoint) ==
    ("method" :> method) @@ ("endpoint" :> endpoint) @@ raw_request

Requests ==
    { WithHeaders(EmptyDict),
      WithHeaders(HBearer(TokenU1)),
      WithHeaders(HOrgEmpty @@ HBearer(TokenU1) @@ HKey),
      WithHeaders(HOrg1),
      WithHeaders(HOrg1 @@ HBasic @@ HKey),
      WithHeaders(HOrg1 @@ HBearer(<<"x">>)),
      WithHeaders(HOrg1 @@ HBearer(TokenExpired)),
      WithHeaders(HOrg1 @@ HBearer(TokenU1)),
      WithBody(HOrg1 @@ HBearer(TokenU1) @@ HKey, Body1),
      WithBody(HOrg1 @@ HBearer(TokenU1) @@ HKey, Body2),
      WithBody(HOrg1 @@ HBearer(TokenU1) @@ HKey, BytesBody),
      WithMethod(WithBody(HOrg2 @@ HBearer(TokenU2) @@ HKey @@ HCorrelation,
                          Body1), "PUT", "/other"),
      WithHeaders(NoneDict) }

(***************************************************************************)
(* Sequential calls of process_request.                                    *)
(***************************************************************************)
\* the fields of the processor's middleware objects, and the clock
State ==
    [counts |-> request_counts, store |-> idempotency_store,
     log |-> audit_log, uuid |-> uuid_counter, t |-> now,
     maxr |-> max_requests, window |-> window_seconds]

ProcessRequest(raw_request) ==
    /\ Len(history) < MaxCalls
    /\ \E run \in {process_request(raw_request, State)} :
           /\ request_counts' = run.counts
           /\ idempotency_store' = run.store
           /\ audit_log' = run.log
           /\ uuid_counter' = run.uuid
           /\ verifier_calls' = verifier_calls \o run.forwarded
           /\ history' = Append(history, [request |-> raw_request,
                                          path |-> run.path,
                                          forwarded |-> run.forwarded,
                                          outcome |-> run.outcome])
    /\ UNCHANGED <<TaskVars, now, trail, max_requests, window_seconds, rl_trace, threads>>

ProcessAny == \E raw_request \in Requests : ProcessRequest(raw_request)

Next == Tick \/ ProcessAny

Spec == Init /\ [][Next]_vars

(***************************************************************************)
(* Properties of sequential process_request calls, checked under Spec.     *)
(***************************************************************************)

\* C1: no exception escapes process_request: every call, whatever the
\* request and whatever the verifier answers, ends by returning a value.
C1_NoExceptionEscapes ==
    \A i \in 1..Len(history) : history[i].outcome.kind = "return"

\* C2: every value process_request returns, the value of a replay included,
\* is {success: true, context, message} or {success: false, error, message}.
C2_TwoOutputShapes ==
    \A i \in 1..Len(history) :
        history[i].outcome.kind = "return" =>
            LET value == history[i].outcome.value
            IN  \/ /\ DOMAIN value = {"success", "context", "message"}
                   /\ value.success = TRUE
                \/ /\ DOMAIN value = {"success", "error", "message"}
                   /\ value.success = FALSE

\* C3: the audit log has one entry for each call that was not an
\* idempotency replay, and none for a replay.
C3_OneAuditEntryPerRun ==
    Len(audit_log) =
        Cardinality({i \in 1..Len(history) : history[i].path # "replay"})

\* C4: a request with a resolvable tenant whose Authorization header is
\* absent or malformed, or names a credential the verifier rejects, gets the
\* failure shape with an Unauthenticated error of status 401.
C4_Unauthenticated401 ==
    \A i \in 1..Len(history) :
        LET headers == history[i].request.headers
        IN  (/\ headers # NoneDict
             /\ \/ TruthyStr(DictGet(headers, "X-Organization-ID", None))
                \/ TruthyStr(DictGet(headers, "X-Tenant-ID", None))
             /\ \/ "Authorization" \notin DOMAIN headers
                \/ ~StartsWith(headers["Authorization"], BearerPrefix)
                \/ jwt_decode(SubSeq(headers["Authorization"], 8,
                              Len(headers["Authorization"]))).status # "ok")
            => /\ history[i].outcome.kind = "return"
               /\ history[i].outcome.value.success = FALSE
               /\ history[i].outcome.value.error.status_code = 401

\* C5: a request whose headers carry no tenant identifier gets the tenant
\* failure with status 400, and the verifier is not called for it.
C5_TenantFailsBeforeAuth ==
    \A i \in 1..Len(history) :
        LET headers == history[i].request.headers
        IN  (/\ headers # NoneDict
             /\ ~TruthyStr(DictGet(headers, "X-Organization-ID", None))
             /\ ~TruthyStr(DictGet(headers, "X-Tenant-ID", None)))
            => /\ history[i].outcome.kind = "return"
               /\ history[i].outcome.value.success = FALSE
               /\ history[i].outcome.value.error.message = MsgTenant
               /\ history[i].outcome.value.error.status_code = 400
               /\ history[i].forwarded = <<>>
               /\ history[i].path = "tenant"

\* C5 witness: a request without tenant that carries a bearer credential the
\* verifier would accept has been processed.
C5_Witness ==
    \E i \in 1..Len(history) :
        /\ history[i].request = WithHeaders(HBearer(TokenU1))
        /\ history[i].outcome.kind = "return"
        /\ history[i].outcome.value.error.status_code = 400
        /\ verifier_calls = <<>>

\* C10: of two calls with the same Idempotency-Key that both pass tenant
\* resolution, authentication and rate limiting, the first of which
\* succeeds, the second returns exactly the value the first returned.
C10_ReplayEqualsFirst ==
    \A i, j \in 1..Len(history) :
        (/\ i < j
         /\ history[i].path = "success"
         /\ history[j].path \in {"replay", "success", "error"}
         /\ history[j].request.headers # NoneDict
         /\ "Idempotency-Key" \in DOMAIN history[i].request.headers
         /\ "Idempotency-Key" \in DOMAIN history[j].request.headers
         /\ history[i].request.headers["Idempotency-Key"]
                = history[j].request.headers["Idempotency-Key"])
        => history[j].outcome = history[i].outcome

(***************************************************************************)
(* The rate limiter called on its own, at non-decreasing times.            *)
(***************************************************************************)
RLCheck(client_id) ==
    /\ Len(rl_trace) < MaxChecks
    /\ \E res \in {is_rate_limited(request_counts, client_id, now,
                                    max_requests, window_seconds)} :
           /\ request_counts' = res.counts
           /\ rl_trace' = Append(rl_trace, [t |-> now, key |-> client_id,
                                            limited |-> res.limited])
    /\ UNCHANGED <<TaskVars, now, trail, uuid_counter, max_requests, window_seconds,
                   idempotency_store, audit_log, verifier_calls, history,
                   threads>>

RLCheckAny == \E client_id \in ClientIds : RLCheck(client_id)

NextRL == RLTick \/ RLCheckAny

SpecRL == InitRL /\ [][NextRL]_vars

(***************************************************************************)
(* Properties of the rate limiter, checked under SpecRL.                   *)
(***************************************************************************)

\* C6: with max_requests = N >= 1 and window_seconds = W, the first N + 1
\* checks of a key, all made less than W after the first, are N admissions
\* followed by one rejection, and the next check of that key, made more
\* than W after the first check, is admitted again.
C6_WindowFromFirstCheck ==
    \A key \in ClientIds :
        LET checks == SelectSeq(rl_trace, LAMBDA e : e.key = key)
            N == max_requests
        IN  (/\ N >= 1
             /\ Len(checks) >= N + 1
             /\ checks[N + 1].t - checks[1].t < window_seconds)
            => /\ \A i \in 1..N : ~checks[i].limited
               /\ checks[N + 1].limited
               /\ (/\ Len(checks) >= N + 2
                   /\ checks[N + 2].t - checks[1].t > window_seconds)
                  => ~checks[N + 2].limited

\* C7: with max_requests >= 1, every stored record's count lies between 1
\* and max_requests.
C7_CountWithinLimit ==
    max_requests >= 1 =>
        \A key \in DOMAIN request_counts :
            /\ request_counts[key][1] >= 1
            /\ request_counts[key][1] <= max_requests

\* C7 witness: a key stands at a limit of at least 2 and a check of it has
\* been rejected.
C7_Witness ==
    /\ max_requests >= 2
    /\ \E key \in DOMAIN request_counts :
           /\ request_counts[key][1] = max_requests
           /\ \E i \in 1..Len(rl_trace) :
                  rl_trace[i].key = key /\ rl_trace[i].limited


(***************************************************************************)
(* Concurrent is_rate_limited calls.  The limiter takes no lock, so a      *)
(* thread switch can fall between the statements of the method: reading    *)
(* the clock (69), building the cleaned dict (73-77), assigning it to      *)
(* self.request_counts (73), reading the key's record (80-83) and writing  *)
(* it back (86, 88, 90).  All calls fall within one window: the clock      *)
(* stands still.                                                           *)
(***************************************************************************)
Threads == 1..NumThreads

IdleRL == [pc |-> "idle", key |-> "", now |-> 0, cleaned |-> EmptyDict,
           record |-> <<0, 0>>, limited |-> FALSE]

InitRLConc ==
    /\ now = 0
    /\ uuid_counter = 0
    /\ max_requests \in 1..MaxMaxRequests
    /\ window_seconds \in 1..MaxWindow
    /\ request_counts = EmptyDict
    /\ idempotency_store = EmptyDict
    /\ audit_log = <<>>
    /\ verifier_calls = <<>>
    /\ history = <<>>
    /\ rl_trace = <<>>
    /\ threads = [th \in Threads |-> IdleRL]
    /\ trail = NoTrail
    /\ NoTasks

RLShared == <<TaskVars, now, trail, uuid_counter, max_requests, window_seconds,
              idempotency_store, audit_log, verifier_calls, history>>

RLCallsStarted ==
    Len(rl_trace) + Cardinality({th \in Threads : threads[th].pc # "idle"})

\* line 69: now = time.time()
RLEnter(th, client_id) ==
    /\ threads[th].pc = "idle"
    /\ RLCallsStarted < MaxChecks
    /\ threads' = [threads EXCEPT ![th] =
                       [IdleRL EXCEPT !.pc = "build", !.key = client_id,
                                      !.now = now]]
    /\ UNCHANGED <<RLShared, request_counts, rl_trace>>

\* lines 73-77: the comprehension reads the shared dict
RLBuild(th) ==
    /\ threads[th].pc = "build"
    /\ threads' = [threads EXCEPT ![th].pc = "assign",
                                  ![th].cleaned =
                                      CleanUp(request_counts, threads[th].now,
                                              window_seconds)]
    /\ UNCHANGED <<RLShared, request_counts, rl_trace>>

\* line 73: self.request_counts = ...
RLAssign(th) ==
    /\ threads[th].pc = "assign"
    /\ request_counts' = threads[th].cleaned
    /\ threads' = [threads EXCEPT ![th].pc = "lookup"]
    /\ UNCHANGED <<RLShared, rl_trace>>

\* lines 80-83: read the key's record and decide
RLLookup(th) ==
    /\ threads[th].pc = "lookup"
    /\ LET decision == decide(request_counts, threads[th].key,
                              threads[th].now, max_requests, window_seconds)
       IN  threads' = [threads EXCEPT
                           ![th].pc = IF decision.limited THEN "return"
                                      ELSE "write",
                           ![th].limited = decision.limited,
                           ![th].record = decision.record]
    /\ UNCHANGED <<RLShared, request_counts, rl_trace>>

\* lines 86, 88, 90: self.request_counts[client_id] = ...
RLWrite(th) ==
    /\ threads[th].pc = "write"
    /\ request_counts' = DictSet(request_counts, threads[th].key,
                                 threads[th].record)
    /\ threads' = [threads EXCEPT ![th].pc = "return"]
    /\ UNCHANGED <<RLShared, rl_trace>>

\* lines 84, 92: return
RLReturn(th) ==
    /\ threads[th].pc = "return"
    /\ rl_trace' = Append(rl_trace, [t |-> threads[th].now,
                                     key |-> threads[th].key,
                                     limited |-> threads[th].limited])
    /\ threads' = [threads EXCEPT ![th] = IdleRL]
    /\ UNCHANGED <<RLShared, request_counts>>

RLEnterAny == \E th \in Threads, client_id \in ClientIds : RLEnter(th, client_id)
RLBuildAny == \E th \in Threads : RLBuild(th)
RLAssignAny == \E th \in Threads : RLAssign(th)
RLLookupAny == \E th \in Threads : RLLookup(th)
RLWriteAny == \E th \in Threads : RLWrite(th)
RLReturnAny == \E th \in Threads : RLReturn(th)

NextRLConc ==
    \/ RLEnterAny
    \/ RLBuildAny
    \/ RLAssignAny
    \/ RLLookupAny
    \/ RLWriteAny
    \/ RLReturnAny

SpecRLConc == InitRLConc /\ [][NextRLConc]_vars

\* C8: of the concurrent checks of one key within one window, at most
\* max_requests are admitted.
C8_AtMostMaxAdmitted ==
    \A key \in ClientIds :
        Cardinality({i \in 1..Len(rl_trace) :
                        rl_trace[i].key = key /\ ~rl_trace[i].limited})
            <= max_requests

(***************************************************************************)
(* Concurrent process_request runs that carry the same Idempotency-Key.    *)
(* The processor takes no lock, so a thread switch can fall between the    *)
(* admission stages (268-301), the idempotency check (304-308), the audit  *)
(* append (311-339), the store (342-343) and the return (345-349).         *)
(***************************************************************************)
KeyedRequests ==
    { WithBody(HOrg1 @@ HBearer(TokenU1) @@ HKey, Body1),
      WithBody(HOrg1 @@ HBearer(TokenU1) @@ HKey, Body2),
      WithBody(HOrg1 @@ HBearer(TokenU1) @@ HKey, BytesBody),
      WithBody(HOrg2 @@ HBearer(TokenU2) @@ HKey @@ HCorrelation, Body1) }

IdleRun == [pc |-> "idle", request |-> EmptyDict, adm |-> NoneDict]

InitConc ==
    /\ now = 0
    /\ uuid_counter = 0
    /\ max_requests = SmallMaxRequests
    /\ window_seconds = SmallWindowSeconds
    /\ request_counts = EmptyDict
    /\ idempotency_store = EmptyDict
    /\ audit_log = <<>>
    /\ verifier_calls = <<>>
    /\ history = <<>>
    /\ rl_trace = <<>>
    /\ threads = [th \in Threads |-> IdleRun]
    /\ trail = NoTrail
    /\ NoTasks

RunsStarted ==
    Len(history) + Cardinality({th \in Threads : threads[th].pc # "idle"})

Finished(th, raw_request, path, forwarded, outcome) ==
    /\ history' = Append(history, [request |-> raw_request, path |-> path,
                                   forwarded |-> forwarded,
                                   outcome |-> outcome])
    /\ threads' = [threads EXCEPT ![th] = IdleRun]

\* lines 268-301: a run that fails here ends in the except clause
RunAdmit(th, raw_request) ==
    /\ threads[th].pc = "idle"
    /\ RunsStarted < MaxCalls
    /\ \E adm \in {admit(raw_request, State)} :
           IF adm.done
           THEN /\ request_counts' = adm.ran.counts
                /\ audit_log' = adm.ran.log
                /\ uuid_counter' = adm.ran.uuid
                /\ verifier_calls' = verifier_calls \o adm.ran.forwarded
                /\ Finished(th, raw_request, adm.ran.path, adm.ran.forwarded,
                            adm.ran.outcome)
           ELSE /\ request_counts' = adm.counts
                /\ uuid_counter' = adm.n
                /\ verifier_calls' = verifier_calls \o adm.forwarded
                /\ threads' = [threads EXCEPT ![th] =
                                   [pc |-> "check", request |-> raw_request,
                                    adm |-> adm]]
                /\ UNCHANGED <<audit_log, history>>
    /\ UNCHANGED <<TaskVars, now, trail, max_requests, window_seconds, idempotency_store,
                   rl_trace>>

\* lines 304-308: the idempotency check
RunCheck(th) ==
    /\ threads[th].pc = "check"
    /\ \E adm \in {threads[th].adm},
          cached_result \in {replayed(threads[th].adm, idempotency_store)} :
           IF TruthyDict(cached_result)
           THEN Finished(th, threads[th].request, "replay", adm.forwarded,
                         Return(cached_result))
           ELSE /\ threads' = [threads EXCEPT ![th].pc = "audit"]
                /\ UNCHANGED history
    /\ UNCHANGED <<TaskVars, now, trail, uuid_counter, max_requests, window_seconds,
                   request_counts, idempotency_store, audit_log,
                   verifier_calls, rl_trace>>

\* lines 311-339: enrichment and the audit append
RunAudit(th) ==
    /\ threads[th].pc = "audit"
    /\ \E adm \in {threads[th].adm},
          logged \in {log_success(threads[th].adm, audit_log, now)} :
           IF logged.raised
           THEN \E handled \in {except_handler(threads[th].request,
                                    logged.error, adm.locals, audit_log,
                                    uuid_counter, now)} :
                    /\ audit_log' = handled.log
                    /\ uuid_counter' = handled.uuid
                    /\ Finished(th, threads[th].request, "error",
                                adm.forwarded, handled.outcome)
           ELSE /\ audit_log' = logged.log
                /\ threads' = [threads EXCEPT ![th].pc = "store"]
                /\ UNCHANGED <<uuid_counter, history>>
    /\ UNCHANGED <<TaskVars, now, trail, max_requests, window_seconds, request_counts,
                   idempotency_store, verifier_calls, rl_trace>>

\* lines 342-343: store the result under the key
RunStore(th) ==
    /\ threads[th].pc = "store"
    /\ LET adm == threads[th].adm
       IN  idempotency_store' =
               IF TruthyStr(adm.idempotency_key)
               THEN store_result(idempotency_store, adm.idempotency_key,
                                 enriched_context(adm))
               ELSE idempotency_store
    /\ threads' = [threads EXCEPT ![th].pc = "return"]
    /\ UNCHANGED <<TaskVars, now, trail, uuid_counter, max_requests, window_seconds,
                   request_counts, audit_log, verifier_calls, history,
                   rl_trace>>

\* lines 345-349: return the success value
RunReturn(th) ==
    /\ threads[th].pc = "return"
    /\ Finished(th, threads[th].request, "success", threads[th].adm.forwarded,
                Return(success_value(threads[th].adm)))
    /\ UNCHANGED <<TaskVars, now, trail, uuid_counter, max_requests, window_seconds,
                   request_counts, idempotency_store, audit_log,
                   verifier_calls, rl_trace>>

RunAdmitAny ==
    \E th \in Threads, raw_request \in KeyedRequests : RunAdmit(th, raw_request)
RunCheckAny == \E th \in Threads : RunCheck(th)
RunAuditAny == \E th \in Threads : RunAudit(th)
RunStoreAny == \E th \in Threads : RunStore(th)
RunReturnAny == \E th \in Threads : RunReturn(th)

NextConc ==
    \/ RunAdmitAny
    \/ RunCheckAny
    \/ RunAuditAny
    \/ RunStoreAny
    \/ RunReturnAny

SpecConc == InitConc /\ [][NextConc]_vars

\* C9: of the concurrent runs that carry the same Idempotency-Key and pass
\* the admission stages, exactly one executes the remaining stages (one
\* audit entry of a processed request, one store write), and all of them
\* return the same result.
C9_OneRunPerKey ==
    /\ Cardinality({i \in 1..Len(audit_log) :
                       audit_log[i].status_code = 200}) <= 1
    /\ \A i, j \in 1..Len(history) :
           (/\ history[i].path \in {"success", "replay"}
            /\ history[j].path \in {"success", "replay"})
           => history[i].outcome = history[j].outcome

(***************************************************************************)
(* IdempotencyMiddleware called on its own: store_result and               *)
(* check_idempotency with any key and any result.                          *)
(***************************************************************************)
IdempotencyKeys == {"k1", "k2"}

StoredResults ==
    { [success |-> TRUE, n |-> 1],
      [success |-> TRUE, n |-> 2],
      [success |-> FALSE, n |-> 3] }

StoreResult(idempotency_key, result) ==
    /\ Len(history) < MaxCalls
    /\ idempotency_store' = store_result(idempotency_store, idempotency_key,
                                         result)
    /\ history' = Append(history, [op |-> "store", key |-> idempotency_key,
                                   result |-> result])
    /\ UNCHANGED <<TaskVars, now, trail, uuid_counter, max_requests, window_seconds,
                   request_counts, audit_log, verifier_calls, rl_trace,
                   threads>>

CheckIdempotency(idempotency_key) ==
    /\ Len(history) < MaxCalls
    /\ history' = Append(history,
                         [op |-> "check", key |-> idempotency_key,
                          result |-> check_idempotency(idempotency_store,
                                                       idempotency_key)])
    /\ UNCHANGED <<TaskVars, now, trail, uuid_counter, max_requests, window_seconds,
                   request_counts, idempotency_store, audit_log,
                   verifier_calls, rl_trace, threads>>

StoreResultAny ==
    \E idempotency_key \in IdempotencyKeys, result \in StoredResults :
        StoreResult(idempotency_key, result)

CheckIdempotencyAny ==
    \E idempotency_key \in IdempotencyKeys : CheckIdempotency(idempotency_key)

NextStore == StoreResultAny \/ CheckIdempotencyAny

SpecStore == Init /\ [][NextStore]_vars

\* C11: store_result is first-write-wins: whatever is stored later under a
\* key, check_idempotency returns the first result stored under it.
C11_FirstWriteWins ==
    \A i \in 1..Len(history) :
        (/\ history[i].op = "check"
         /\ \E j \in 1..(i - 1) :
                history[j].op = "store" /\ history[j].key = history[i].key)
        => LET first == CHOOSE j \in 1..(i - 1) :
                            /\ history[j].op = "store"
                            /\ history[j].key = history[i].key
                            /\ \A l \in 1..(j - 1) :
                                   ~(/\ history[l].op = "store"
                                     /\ history[l].key = history[i].key)
           IN  history[i].result = history[first].result

(***************************************************************************)
(* More properties of sequential process_request calls, under Spec.        *)
(***************************************************************************)
\* the Idempotency-Key header of a request, None when there is none
KeyOf(raw_request) ==
    IF raw_request.headers = NoneDict
    THEN None
    ELSE DictGet(raw_request.headers, "Idempotency-Key", None)

\* C12: in sequential process_request calls the idempotency store is
\* written at most once for each key (at most one call per key reaches the
\* store), and a key that holds a result keeps that very result for ever.
C12_StoreWrittenOncePerKey ==
    [][/\ \A k \in DOMAIN idempotency_store :
              /\ k \in DOMAIN idempotency_store'
              /\ idempotency_store'[k] = idempotency_store[k]
       /\ \A k \in DOMAIN idempotency_store' :
              Cardinality({i \in 1..Len(history') :
                              /\ history'[i].path = "success"
                              /\ KeyOf(history'[i].request) = k}) = 1]_vars

\* C12 witness: a call stored its result under a key and a later call with
\* the same key was answered from the store.
C12_Witness ==
    \E i, j \in 1..Len(history) :
        /\ i < j
        /\ history[i].path = "success"
        /\ history[j].path = "replay"
        /\ KeyOf(history[i].request) = KeyOf(history[j].request)
        /\ KeyOf(history[i].request) \in DOMAIN idempotency_store


(***************************************************************************)
(* More properties of the rate limiter, checked under SpecRL.               *)
(***************************************************************************)
\* C14: a call that fails tenant resolution or authentication leaves the
\* rate limiter's records as they were: no record is created, changed or
\* removed by it.
C14_FailureLeavesCountsAlone ==
    [][(/\ Len(history') = Len(history) + 1
        /\ history'[Len(history')].path \in {"tenant", "auth"})
       => request_counts' = request_counts]_vars

\* C14 witness: the limiter holds a record, and after it was written a
\* tenant failure and an authentication failure have both been processed.
C14_Witness ==
    /\ request_counts # EmptyDict
    /\ \E i, j, k \in 1..Len(history) :
           /\ i < j
           /\ i < k
           /\ history[i].path = "success"
           /\ history[j].path = "tenant"
           /\ history[k].path = "auth"

\* C15: the errors returned for failures of the three admission stages
\* carry the documented status code of the stage that failed, 400 for a
\* missing tenant, 401 for a failed authentication and 429 for an exceeded
\* rate limit, and their categories differ from stage to stage.
C15_StageCategoriesAndCodes ==
    LET Documented == [tenant |-> 400, auth |-> 401, rate |-> 429]
        failures == {i \in 1..Len(history) :
                        /\ history[i].path \in {"tenant", "auth", "rate"}
                        /\ history[i].outcome.kind = "return"}
    IN  /\ \A i \in failures :
               /\ history[i].outcome.value.success = FALSE
               /\ history[i].outcome.value.error.status_code
                      = Documented[history[i].path]
        /\ \A i, j \in failures :
               history[i].path # history[j].path
                   => history[i].outcome.value.error.category
                          # history[j].outcome.value.error.category

\* C17: a call that fails at the tenant, authentication or rate limit
\* stage appends one audit entry that carries what was resolved before the
\* failure: org_id is null for a tenant failure and the resolved tenant
\* otherwise, user_id is null for tenant and authentication failures and
\* the authenticated user for a rate limit failure, and status_code is the
\* status_code of the error returned to the caller.
C17_FailureEntryCarriesContext ==
    [][(/\ Len(history') = Len(history) + 1
        /\ history'[Len(history')].path \in {"tenant", "auth", "rate"})
       => LET run == history'[Len(history')]
              headers == run.request.headers
          IN  /\ Len(audit_log') = Len(audit_log) + 1
              /\ SubSeq(audit_log', 1, Len(audit_log)) = audit_log
              /\ LET entry == audit_log'[Len(audit_log')]
                 IN  /\ entry.org_id =
                            IF run.path = "tenant"
                            THEN None
                            ELSE resolve_organization(headers)
                     /\ entry.user_id =
                            IF run.path = "rate"
                            THEN authenticate_request(headers).payload.user_id
                            ELSE None
                     /\ run.outcome.kind = "return"
                     /\ entry.status_code
                            = run.outcome.value.error.status_code]_vars

\* C13: a window is anchored at its start.  With start[i] the time at which
\* the window of the i-th check of a key began (the first check, or the
\* latest check made window_seconds or more after the start before it), an
\* admitted check that only increments the count leaves the stored
\* window_start at that time, and a check made window_seconds or more after
\* it is admitted and leaves the record <<1, now>>.
C13_WindowAnchoredAtStart ==
    \A key \in ClientIds :
        LET checks == SelectSeq(rl_trace, LAMBDA e : e.key = key)
            n == Len(checks)
            start[i \in 1..n] ==
                IF i = 1
                THEN checks[1].t
                ELSE IF checks[i].t >= start[i - 1] + window_seconds
                THEN checks[i].t
                ELSE start[i - 1]
        IN  /\ \A i \in 2..n :
                   checks[i].t >= start[i - 1] + window_seconds
                       => ~checks[i].limited
            /\ (n >= 1 /\ key \in DOMAIN request_counts)
                   => request_counts[key][2] = start[n]
            /\ (/\ n >= 2
                /\ key \in DOMAIN request_counts
                /\ checks[n].t >= start[n - 1] + window_seconds)
                   => request_counts[key] = <<1, checks[n].t>>


(***************************************************************************)
(* GlobalErrorNormalizationMiddleware.normalize_error called on its own,   *)
(* with any exception of the types below.  history holds the latest call.  *)
(***************************************************************************)
MaxNormCalls == 3

ErrorTypes ==
    {"MiddlewareException", "ValueError", "PermissionError",
     "FileNotFoundError", "OSError", "TypeError", "AttributeError",
     "RuntimeError", "Exception"}

\* exceptions raised with no argument or with one message; a
\* JSONDecodeError always carries its message
Errors ==
    [type : ErrorTypes, args : {<<>>, <<"m1">>}]
        \cup {Raise("JSONDecodeError", "Expecting value: line 1 column 1 (char 0)")}

ErrorContexts == {"", "Request Processing"}

NormalizeError(error, context) ==
    /\ uuid_counter < MaxNormCalls
    /\ uuid_counter' = uuid_counter + 1
    /\ history' = <<[error |-> error, context |-> context,
                     normalized |-> normalize_error(error, context,
                                                    uuid_counter, now)]>>
    /\ UNCHANGED <<TaskVars, now, trail, max_requests, window_seconds, request_counts,
                   idempotency_store, audit_log, verifier_calls, rl_trace,
                   threads>>

NormalizeAny ==
    \E error \in Errors, context \in ErrorContexts :
        NormalizeError(error, context)

NextNorm == Tick \/ NormalizeAny

SpecNorm == Init /\ [][NextNorm]_vars

\* C16: normalize_error is total: for every exception it returns the eight
\* fields of a normalized error, with one of the five categories and a
\* status code among 400, 401, 403, 404, 429 and 500; an exception that is
\* an instance of none of the four recognized classes gets system_error
\* and 500.
C16_NormalizeTotal ==
    \A i \in 1..Len(history) :
        LET error == history[i].error
            normalized == history[i].normalized
        IN  /\ DOMAIN normalized =
                   {"error_id", "timestamp", "type", "category", "message",
                    "context", "status_code", "details"}
            /\ normalized.category \in
                   {"middleware_error", "validation_error",
                    "authorization_error", "resource_not_found",
                    "system_error"}
            /\ normalized.status_code \in {400, 401, 403, 404, 429, 500}
            /\ normalized.type = error.type
            /\ normalized.context = history[i].context
            /\ Mro(error.type) \cap
                   {"MiddlewareException", "ValueError", "PermissionError",
                    "FileNotFoundError"} = {}
                   => /\ normalized.category = "system_error"
                      /\ normalized.status_code = 500

\* C16 witness: an exception of an unrecognized type, raised without a
\* message, has been normalized to status 500.
C16_Witness ==
    \E i \in 1..Len(history) :
        /\ history[i].error = [type |-> "TypeError", args |-> <<>>]
        /\ history[i].normalized.status_code = 500


(***************************************************************************)
(* AuditLoggingMiddleware.get_audit_trail and the processor together.      *)
(***************************************************************************)
MaxAuditCalls == 2

\* line 9, from datetime import datetime, timezone: the module's name
\* datetime is the class, whose attributes are these and not timedelta
DatetimeAttributes ==
    {"now", "utcnow", "fromtimestamp", "fromisoformat", "combine",
     "strptime", "today", "min", "max", "resolution"}

MsgNoTimedelta ==
    "type object 'datetime.datetime' has no attribute 'timedelta'"

\* lines 194-206; days_back is counted in ticks of the clock.  Line 197
\* looks timedelta up on the name datetime before any entry is read.
get_audit_trail(log, user_id, org_id, days_back, t) ==
    IF "timedelta" \notin DatetimeAttributes
    THEN Escape(Raise("AttributeError", MsgNoTimedelta))
    ELSE LET cutoff_date == t - days_back
         IN  Return(SelectSeq(log, LAMBDA entry :
                 /\ entry.timestamp >= cutoff_date
                 /\ (~TruthyStr(user_id) \/ entry.user_id = user_id)
                 /\ (~TruthyStr(org_id) \/ entry.org_id = org_id)))

\* a call of get_audit_trail; trail keeps the call and how it ended
GetAuditTrail(user_id, org_id, days_back) ==
    /\ trail' = [kind |-> "call", user_id |-> user_id, org_id |-> org_id,
                 days_back |-> days_back, t |-> now, log |-> audit_log,
                 outcome |-> get_audit_trail(audit_log, user_id, org_id,
                                             days_back, now)]
    /\ UNCHANGED <<TaskVars, now, uuid_counter, max_requests, window_seconds,
                   request_counts, idempotency_store, audit_log,
                   verifier_calls, history, rl_trace, threads>>

GetAuditTrailAny ==
    \E user_id \in {None, "u1"}, org_id \in {None, "org1"},
       days_back \in {0, 1} :
        GetAuditTrail(user_id, org_id, days_back)

\* process_request, for at most MaxAuditCalls calls
AuditedProcessAny ==
    /\ Len(history) < MaxAuditCalls
    /\ ProcessAny

NextAudit == Tick \/ AuditedProcessAny \/ GetAuditTrailAny

SpecAudit == Init /\ [][NextAudit]_vars

\* C18: the audit log is append-only under process_request and
\* get_audit_trail calls: every step leaves the log as it was or adds one
\* entry at its end, the entry of the call that has just completed, stamped
\* with the time of that call; so an earlier log is a prefix of every later
\* one and the entries stand in the order in which the calls completed.
C18_AuditLogAppendOnly ==
    [][\/ audit_log' = audit_log
       \/ /\ Len(audit_log') = Len(audit_log) + 1
          /\ SubSeq(audit_log', 1, Len(audit_log)) = audit_log
          /\ Len(history') = Len(history) + 1
          /\ audit_log'[Len(audit_log')].timestamp = now
          /\ \A i \in 1..Len(audit_log) :
                 audit_log[i].timestamp <= now]_vars

\* C18 witness: get_audit_trail was called on a log that held an entry,
\* and the log has grown to two entries since.
C18_Witness ==
    /\ trail.kind = "call"
    /\ Len(trail.log) = 1
    /\ Len(audit_log) = 2

\* C20: get_audit_trail(user_id, org_id, days_back) returns, in the order
\* of the log, exactly the entries not older than the cutoff whose user_id
\* and org_id match the filters given, a filter left out matching every
\* entry.
C20_TrailIsFilteredLog ==
    trail.kind = "call" =>
        /\ trail.outcome.kind = "return"
        /\ trail.outcome.value =
               SelectSeq(trail.log, LAMBDA entry :
                   /\ entry.timestamp >= trail.t - trail.days_back
                   /\ (trail.user_id = None \/ entry.user_id = trail.user_id)
                   /\ (trail.org_id = None \/ entry.org_id = trail.org_id))


(***************************************************************************)
(* Concurrent process_request runs of any kind: the requests of SpecConc   *)
(* and requests that fail at the tenant and authentication stages.  The    *)
(* audit append of line 192 is one list.append, a single step.             *)
(***************************************************************************)
MixedRequests ==
    KeyedRequests
        \cup {WithHeaders(EmptyDict), WithHeaders(HOrg1),
              WithHeaders(HOrg1 @@ HBearer(TokenExpired))}

RunAdmitMixedAny ==
    \E th \in Threads, raw_request \in MixedRequests :
        RunAdmit(th, raw_request)

NextConcMixed ==
    \/ RunAdmitMixedAny
    \/ RunCheckAny
    \/ RunAuditAny
    \/ RunStoreAny
    \/ RunReturnAny

SpecConcMixed == InitConc /\ [][NextConcMixed]_vars

\* C19: no audit append is lost under concurrent runs: once every run has
\* ended, the audit log holds exactly one entry for each run that was not
\* an idempotency replay.
C19_OneEntryPerConcurrentRun ==
    (\A th \in Threads : threads[th].pc = "idle")
        => Len(audit_log) =
               Cardinality({i \in 1..Len(history) :
                               history[i].path # "replay"})


(***************************************************************************)
(* Properties of the idempotency stage in sequential calls, under Spec.    *)
(***************************************************************************)
\* C21: a call whose request carries no Idempotency-Key is never answered
\* from the store and leaves the store as it was, whatever the store
\* holds; when it passes the admission stages it runs on to the audit
\* append.
C21_NoKeyNoStore ==
    [][(/\ Len(history') = Len(history) + 1
        /\ KeyOf(history'[Len(history')].request) = None)
       => /\ idempotency_store' = idempotency_store
          /\ history'[Len(history')].path # "replay"
          /\ history'[Len(history')].path = "success"
                 => Len(audit_log') = Len(audit_log) + 1]_vars

\* C21 witness: the store holds a result, and a later request without a
\* key, from the client that stored it, was processed to the end.
C21_Witness ==
    /\ idempotency_store # EmptyDict
    /\ \E i, j \in 1..Len(history) :
           /\ i < j
           /\ history[i].path = "success"
           /\ KeyOf(history[i].request) # None
           /\ history[j].path = "success"
           /\ KeyOf(history[j].request) = None


\* C22: a request that passes tenant resolution, authentication and the
\* rate limit and carries a key under which a result is stored is answered
\* with exactly that stored result, whatever its tenant, principal, method,
\* endpoint and body are, and the call appends no audit entry and leaves
\* the store as it was.
C22_HitIgnoresOtherAttributes ==
    [][(/\ Len(history') = Len(history) + 1
        /\ history'[Len(history')].path \in {"replay", "success", "error"}
        /\ KeyOf(history'[Len(history')].request)
               \in DOMAIN idempotency_store)
       => /\ history'[Len(history')].path = "replay"
          /\ history'[Len(history')].outcome =
                 Return(idempotency_store[
                            KeyOf(history'[Len(history')].request)])
          /\ audit_log' = audit_log
          /\ idempotency_store' = idempotency_store]_vars

\* C22 witness: a request was answered from the store although its tenant,
\* principal, method, endpoint and body all differ from those of the
\* request that stored the result.
C22_Witness ==
    \E i, j \in 1..Len(history) :
        /\ i < j
        /\ history[i].path = "success"
        /\ history[j].path = "replay"
        /\ KeyOf(history[i].request) = KeyOf(history[j].request)
        /\ history[j].outcome.value.org_id
               # resolve_organization(history[j].request.headers)
        /\ history[j].outcome.value.user_id
               # authenticate_request(history[j].request.headers)
                     .payload.user_id
        /\ history[j].outcome.value.method # history[j].request.method
        /\ history[j].outcome.value.endpoint # history[j].request.endpoint
        /\ history[j].outcome.value.body # history[j].request.body


(***************************************************************************)
(* Properties of the success path and of the correlation id, under Spec.   *)
(***************************************************************************)
\* C23: a request with a resolvable tenant, a bearer credential the
\* verifier accepts, a client key under its limit and no stored result
\* under its key is answered with the success shape, whose context holds
\* the tenant of the headers, the user id and the roles the verifier
\* returned, the locale and the timezone of the headers (en-US and UTC by
\* default) and authenticated = true.
C23_SuccessContext ==
    [][(/\ Len(history') = Len(history) + 1
        /\ history'[Len(history')].request.headers # NoneDict
        /\ LET raw_request == history'[Len(history')].request
               headers == raw_request.headers
               auth == authenticate_request(headers)
           IN  /\ TruthyStr(resolve_organization(headers))
               /\ TruthyDict(auth.payload)
               /\ ~is_rate_limited(request_counts,
                                   client_id_of(auth.payload, raw_request),
                                   now, max_requests, window_seconds).limited
               /\ KeyOf(raw_request) \notin DOMAIN idempotency_store)
       => LET run == history'[Len(history')]
              headers == run.request.headers
              payload == authenticate_request(headers).payload
          IN  /\ run.outcome.kind = "return"
              /\ DOMAIN run.outcome.value = {"success", "context", "message"}
              /\ run.outcome.value.success = TRUE
              /\ run.outcome.value.context.org_id
                     = resolve_organization(headers)
              /\ run.outcome.value.context.user_id = payload.user_id
              /\ run.outcome.value.context.roles = payload.roles
              /\ run.outcome.value.context.locale
                     = DictGet(headers, "Accept-Language", "en-US")
              /\ run.outcome.value.context.timezone
                     = DictGet(headers, "X-Timezone", "UTC")
              /\ run.outcome.value.context.authenticated = TRUE]_vars


\* C24: a call that is not answered from the store uses the request's
\* X-Correlation-ID when the header is there and not empty, and an id no
\* earlier audit entry carries otherwise; the call appends an audit entry
\* with that id, on the failure path as on the success path, and on the
\* success path the returned context carries the same id.
C24_CorrelationIdCarried ==
    [][(/\ Len(history') = Len(history) + 1
        /\ history'[Len(history')].request.headers # NoneDict
        /\ history'[Len(history')].path # "replay")
       => LET run == history'[Len(history')]
              given == DictGet(run.request.headers, "X-Correlation-ID", None)
          IN  /\ Len(audit_log') = Len(audit_log) + 1
              /\ LET entry == audit_log'[Len(audit_log')]
                 IN  /\ TruthyStr(given) => entry.correlation_id = given
                     /\ ~TruthyStr(given) =>
                            /\ entry.correlation_id # None
                            /\ \A i \in 1..Len(audit_log) :
                                   audit_log[i].correlation_id
                                       # entry.correlation_id
                     /\ run.path = "success" =>
                            run.outcome.value.context.correlation_id
                                = entry.correlation_id]_vars


(***************************************************************************)
(* AuthenticationMiddleware.authenticate_request called on its own, with   *)
(* headers whose Authorization value is absent, empty, malformed or a      *)
(* bearer credential.                                                      *)
(***************************************************************************)
MaxAuthCalls == 3

AuthorizationValues ==
    { <<>>,
      <<"B", "e", "a", "r", "e", "r">>,
      BearerPrefix,
      BearerPrefix \o TokenU1,
      BearerPrefix \o TokenU2,
      BearerPrefix \o TokenExpired,
      BearerPrefix \o <<"x">>,
      BearerPrefix \o <<" ">> \o TokenU1,
      <<" ">> \o BearerPrefix \o TokenU1,
      <<"b", "e", "a", "r", "e", "r", " ">> \o TokenU1,
      <<"B", "a", "s", "i", "c", " ">> \o TokenU1 }

AuthHeaders ==
    {EmptyDict, HOrg1}
        \cup {"Authorization" :> value : value \in AuthorizationValues}

AuthenticateRequest(request_headers) ==
    /\ Len(history) < MaxAuthCalls
    /\ \E auth \in {authenticate_request(request_headers)} :
           /\ verifier_calls' = verifier_calls \o auth.forwarded
           /\ history' = Append(history, [headers |-> request_headers,
                                          payload |-> auth.payload,
                                          forwarded |-> auth.forwarded])
    /\ UNCHANGED <<TaskVars, now, trail, uuid_counter, max_requests, window_seconds,
                   request_counts, idempotency_store, audit_log, rl_trace,
                   threads>>

AuthenticateAny ==
    \E request_headers \in AuthHeaders : AuthenticateRequest(request_headers)

NextAuth == AuthenticateAny

SpecAuth == Init /\ [][NextAuth]_vars

\* C25: authenticate_request calls the verifier exactly when the
\* Authorization header is there and begins with the seven characters
\* "Bearer "; it hands the verifier the text after these seven characters,
\* returns the payload the verifier returns, and returns None when the
\* header is absent or malformed or the verifier returns None.
C25_BearerForwarded ==
    \A i \in 1..Len(history) :
        LET headers == history[i].headers
            bearer ==
                /\ "Authorization" \in DOMAIN headers
                /\ Len(headers["Authorization"]) >= 7
                /\ \A k \in 1..7 :
                       headers["Authorization"][k] = BearerPrefix[k]
            credential ==
                [k \in 1..(Len(headers["Authorization"]) - 7)
                    |-> headers["Authorization"][k + 7]]
        IN  /\ ~bearer =>
                   /\ history[i].forwarded = <<>>
                   /\ history[i].payload = NoneDict
            /\ bearer =>
                   /\ history[i].forwarded = <<credential>>
                   /\ history[i].payload =
                          IF jwt_decode(credential).status = "ok"
                          THEN jwt_decode(credential).payload
                          ELSE NoneDict

\* C25 witness: one call returned the payload of an accepted credential,
\* and one call handed the verifier the empty text that follows a bare
\* "Bearer ".
C25_Witness ==
    \E i, j \in 1..Len(history) :
        /\ history[i].headers = HBearer(TokenU1)
        /\ history[i].payload # NoneDict
        /\ history[i].payload.user_id = "u1"
        /\ history[j].headers = "Authorization" :> BearerPrefix
        /\ history[j].forwarded = << <<>> >>


(***************************************************************************)
(* PermissionService and RequestProcessor.check_permission.  The members   *)
(* of the enums PermissionAction and PermissionTarget are written as their *)
(* values.                                                                 *)
(***************************************************************************)
PermissionAction == {"read", "write", "delete", "execute"}

PermissionTarget ==
    {"user", "organization", "learning_item", "session", "progress",
     "category"}

Perm(action, target) == [action |-> action, target |-> target]

\* service.py lines 29-66
role_permissions ==
    [admin |->
        {Perm("read", "user"), Perm("write", "user"), Perm("delete", "user"),
         Perm("read", "organization"), Perm("write", "organization"),
         Perm("read", "learning_item"), Perm("write", "learning_item"),
         Perm("delete", "learning_item"),
         Perm("read", "session"), Perm("write", "session"),
         Perm("read", "progress"), Perm("write", "progress"),
         Perm("read", "category"), Perm("write", "category"),
         Perm("delete", "category")},
     instructor |->
        {Perm("read", "user"), Perm("read", "organization"),
         Perm("read", "learning_item"), Perm("write", "learning_item"),
         Perm("read", "session"), Perm("write", "session"),
         Perm("read", "progress"),
         Perm("read", "category"), Perm("write", "category")},
     learner |->
        {Perm("read", "learning_item"),
         Perm("read", "session"), Perm("write", "session"),
         Perm("read", "progress"), Perm("write", "progress"),
         Perm("read", "category")}]

MsgNoneStartswith == "'NoneType' object has no attribute 'startswith'"

\* service.py lines 95-110, called with resource_id = None as
\* check_permission calls it: line 107 is None == user_id or
\* None.startswith(...)
check_resource_specific_rules(user_id, role, action, target) ==
    IF role = "learner" /\ target = "progress" /\ action = "write"
    THEN IF user_id = None
         THEN Return(TRUE)
         ELSE Escape(Raise("AttributeError", MsgNoneStartswith))
    ELSE Return(TRUE)

\* service.py lines 68-93, with resource_id left at its default None
has_permission(user_id, role, action, target, org_id) ==
    IF role \notin DOMAIN role_permissions
    THEN Return(FALSE)
    ELSE IF Perm(action, target) \notin role_permissions[role]
    THEN Return(FALSE)
    ELSE check_resource_specific_rules(user_id, role, action, target)

\* the action and resource names callers pass, and str.lower() on them
ActionNames ==
    {"read", "write", "delete", "execute", "WRITE", "update", "approve"}

ResourceNames ==
    {"user", "organization", "learning_item", "session", "progress",
     "category", "Progress", "invoice"}

Lower(name) ==
    IF name = "WRITE" THEN "write"
    ELSE IF name = "Progress" THEN "progress"
    ELSE name

\* core.py lines 383-400: the maps and their defaults
action_map_get(action) ==
    IF Lower(action) \in PermissionAction THEN Lower(action) ELSE "read"

resource_map_get(resource) ==
    IF Lower(resource) \in PermissionTarget THEN Lower(resource) ELSE "user"

\* core.py lines 399-404: what has_permission is called with
delegated(user_id, role, action, resource, org_id) ==
    [user_id |-> user_id, role |-> role,
     action |-> action_map_get(action),
     target |-> resource_map_get(resource),
     org_id |-> org_id]

\* core.py lines 376-404
check_permission(user_id, role, action, resource, org_id) ==
    has_permission(user_id, role, action_map_get(action),
                   resource_map_get(resource), org_id)

Roles == {"admin", "instructor", "learner", "guest"}

\* a call of check_permission; history keeps the latest call
CheckPermission(user_id, role, action, resource, org_id) ==
    /\ history' = <<[user_id |-> user_id, role |-> role, action |-> action,
                     resource |-> resource, org_id |-> org_id,
                     delegated |-> delegated(user_id, role, action, resource,
                                             org_id),
                     outcome |-> check_permission(user_id, role, action,
                                                  resource, org_id)]>>
    /\ UNCHANGED <<TaskVars, now, trail, uuid_counter, max_requests, window_seconds,
                   request_counts, idempotency_store, audit_log,
                   verifier_calls, rl_trace, threads>>

CheckPermissionAny ==
    \E user_id \in {"u1", "u2"}, role \in Roles, action \in ActionNames,
       resource \in ResourceNames, org_id \in {"org1", "org2"} :
        CheckPermission(user_id, role, action, resource, org_id)

NextPerm == CheckPermissionAny

SpecPerm == Init /\ [][NextPerm]_vars

\* C26: check_permission asks the checker about the caller's user id and
\* role, the action and the target that were requested, and the tenant,
\* and it returns a denial exactly when the role's permissions do not
\* include that action on that target.
C26_DelegatesSameActionAndTarget ==
    \A i \in 1..Len(history) :
        LET call == history[i]
        IN  /\ call.delegated =
                   [user_id |-> call.user_id, role |-> call.role,
                    action |-> Lower(call.action),
                    target |-> Lower(call.resource),
                    org_id |-> call.org_id]
            /\ call.outcome.kind = "return"
            /\ call.outcome.value = FALSE
                   <=> \/ call.role \notin DOMAIN role_permissions
                       \/ Perm(Lower(call.action), Lower(call.resource))
                              \notin role_permissions[call.role]


(***************************************************************************)
(* Frame and eviction properties of the rate limiter, under SpecRL.        *)
(***************************************************************************)
\* C27: right after an is_rate_limited call made at time now, every record
\* of the limiter, of the checked key and of every other key, has a
\* timestamp greater than now - window_seconds, and belongs to a key that
\* was checked within that window.
C27_StaleKeysEvicted ==
    [][Len(rl_trace') = Len(rl_trace) + 1
       => \A key \in DOMAIN request_counts' :
              /\ request_counts'[key][2] > now - window_seconds
              /\ \E i \in 1..Len(rl_trace') :
                     /\ rl_trace'[i].key = key
                     /\ rl_trace'[i].t > now - window_seconds]_vars

\* C27 witness: a key was checked, and a later check of another key, made
\* a full window or more after, has removed its record.
C27_Witness ==
    \E i, j \in 1..Len(rl_trace) :
        /\ i < j
        /\ rl_trace[i].key # rl_trace[j].key
        /\ rl_trace[j].t >= rl_trace[i].t + window_seconds
        /\ rl_trace[i].key \notin DOMAIN request_counts
        /\ rl_trace[j].key \in DOMAIN request_counts


\* C28: a check that is_rate_limited rejects leaves the record of the
\* checked key, its count and its timestamp, exactly as it was before the
\* call.
C28_RejectedCheckKeepsRecord ==
    [][(/\ Len(rl_trace') = Len(rl_trace) + 1
        /\ rl_trace'[Len(rl_trace')].limited)
       => LET key == rl_trace'[Len(rl_trace')].key
          IN  /\ key \in DOMAIN request_counts
              /\ key \in DOMAIN request_counts'
              /\ request_counts'[key] = request_counts[key]]_vars

\* C28 witness: the latest check was rejected, at a time later than the
\* timestamp of the record it found at a limit of at least 1.
C28_Witness ==
    /\ max_requests >= 1
    /\ rl_trace # <<>>
    /\ rl_trace[Len(rl_trace)].limited
    /\ rl_trace[Len(rl_trace)].t = now
    /\ rl_trace[Len(rl_trace)].key \in DOMAIN request_counts
    /\ request_counts[rl_trace[Len(rl_trace)].key][2] < now


(***************************************************************************)
(* The rate limit within the pipeline, under Spec.                         *)
(***************************************************************************)
\* C29: the rate limit is checked before the store is looked up: a call
\* answered from the store has counted against its client key (the count
\* is one more than before, or 1 in a new window), and a request whose key
\* holds a stored result but whose client key stands at its limit gets the
\* rate limit failure, not the stored result.
C29_RateLimitBeforeReplay ==
    [][(/\ Len(history') = Len(history) + 1
        /\ history'[Len(history')].request.headers # NoneDict
        /\ TruthyStr(resolve_organization(
               history'[Len(history')].request.headers))
        /\ TruthyDict(authenticate_request(
               history'[Len(history')].request.headers).payload)
        /\ KeyOf(history'[Len(history')].request)
               \in DOMAIN idempotency_store)
       => LET run == history'[Len(history')]
              client_id ==
                  client_id_of(authenticate_request(run.request.headers)
                                   .payload, run.request)
              open == /\ client_id \in DOMAIN request_counts
                      /\ now - request_counts[client_id][2] < window_seconds
              full == open /\ request_counts[client_id][1] >= max_requests
          IN  /\ full =>
                     /\ run.path = "rate"
                     /\ run.outcome.value.success = FALSE
                     /\ run.outcome.value.error.message = MsgRate
              /\ ~full =>
                     /\ run.path = "replay"
                     /\ client_id \in DOMAIN request_counts'
                     /\ request_counts'[client_id][1] =
                            IF open
                            THEN request_counts[client_id][1] + 1
                            ELSE 1]_vars

\* C29 witness: a key holds a stored result, one request with that key was
\* answered from the store, and a later one with that key was rejected by
\* the rate limit.
C29_Witness ==
    \E i, j \in 1..Len(history) :
        /\ i < j
        /\ history[i].path = "replay"
        /\ history[j].path = "rate"
        /\ KeyOf(history[j].request) \in DOMAIN idempotency_store
        /\ KeyOf(history[i].request) = KeyOf(history[j].request)


(***************************************************************************)
(* The rate limit buckets of the pipeline: requests of several users from  *)
(* several addresses, ids and addresses with a colon among them.           *)
(***************************************************************************)
\* the same request sent from another address
WithIp(raw_request, ip_address) == ("ip_address" :> ip_address) @@ raw_request

BucketRequests ==
    { WithIp(WithHeaders(HOrg1 @@ HBearer(TokenColon)), "c"),
      WithIp(WithHeaders(HOrg1 @@ HBearer(TokenPlain)), "b:c"),
      WithIp(WithHeaders(HOrg1 @@ HBearer(TokenPlain)), "c"),
      WithIp(WithHeaders(HOrg1 @@ HBearer(TokenU1)), "::1"),
      WithIp(WithHeaders(HOrg1 @@ HBearer(TokenU2)), "::1"),
      WithHeaders(HOrg1 @@ HBearer(TokenU1)) }

BucketProcessAny ==
    \E raw_request \in BucketRequests : ProcessRequest(raw_request)

NextBuckets == Tick \/ BucketProcessAny

SpecBuckets == Init /\ [][NextBuckets]_vars

\* C30: requests whose (user id, address) pairs differ are never counted
\* against the same record, whatever characters the ids and addresses
\* hold: no record's count exceeds the number of requests that one single
\* pair has sent.
C30_BucketsPerPrincipalAndIp ==
    LET PairOf(i) ==
            <<authenticate_request(history[i].request.headers).payload.user_id,
              history[i].request.ip_address>>
    IN  \A key \in DOMAIN request_counts :
            \E i \in 1..Len(history) :
                request_counts[key][1] <=
                    Cardinality({j \in 1..Len(history) :
                                    PairOf(j) = PairOf(i)})


(***************************************************************************)
(* OrganizationTenantMiddleware.resolve_organization called on its own,    *)
(* with the default resolver.                                              *)
(***************************************************************************)
MaxTenantCalls == 2

TenantValues == {"", "org1", "org2"}

\* headers with each of the two tenant headers absent, empty or set
TenantHeaders ==
    {EmptyDict}
        \cup {"X-Organization-ID" :> p : p \in TenantValues}
        \cup {"X-Tenant-ID" :> a : a \in TenantValues}
        \cup {("X-Organization-ID" :> p) @@ ("X-Tenant-ID" :> a) :
                  p \in TenantValues, a \in TenantValues}

ResolveOrganization(request_headers) ==
    /\ Len(history) < MaxTenantCalls
    /\ history' = Append(history,
                         [headers |-> request_headers,
                          org_id |-> resolve_organization(request_headers)])
    /\ UNCHANGED <<TaskVars, now, trail, uuid_counter, max_requests, window_seconds,
                   request_counts, idempotency_store, audit_log,
                   verifier_calls, rl_trace, threads>>

ResolveOrganizationAny ==
    \E request_headers \in TenantHeaders :
        ResolveOrganization(request_headers)

NextTenant == ResolveOrganizationAny

SpecTenant == Init /\ [][NextTenant]_vars

\* C31: the default resolver returns the value of X-Organization-ID when
\* that value is not empty, otherwise the value of X-Tenant-ID when that is
\* not empty, otherwise no tenant (nothing the pipeline takes for one); the
\* answer depends on the headers alone, and a call changes nothing in the
\* middleware objects.
C31_DefaultResolver ==
    [][Len(history') = Len(history) + 1
       => LET call == history'[Len(history')]
              primary == DictGet(call.headers, "X-Organization-ID", None)
              alias == DictGet(call.headers, "X-Tenant-ID", None)
          IN  /\ (primary # None /\ primary # "") => call.org_id = primary
              /\ (/\ primary = None \/ primary = ""
                  /\ alias # None /\ alias # "") => call.org_id = alias
              /\ (/\ primary = None \/ primary = ""
                  /\ alias = None \/ alias = "")
                     => call.org_id \in {None, ""}
              /\ \A i \in 1..Len(history) :
                     history[i].headers = call.headers
                         => history[i].org_id = call.org_id
              /\ UNCHANGED <<request_counts, idempotency_store, audit_log,
                             verifier_calls, uuid_counter>>]_vars

\* C31 witness: with both headers set to different tenants the primary
\* one was returned, and with an empty primary header the alias was.
C31_Witness ==
    \E i, j \in 1..Len(history) :
        /\ history[i].headers = ("X-Organization-ID" :> "org1")
                                    @@ ("X-Tenant-ID" :> "org2")
        /\ history[i].org_id = "org1"
        /\ history[j].headers = ("X-Organization-ID" :> "")
                                    @@ ("X-Tenant-ID" :> "org2")
        /\ history[j].org_id = "org2"


(***************************************************************************)
(* Requests that differ in the letter case of their header names only.     *)
(***************************************************************************)
\* the header name as the code spells it, for the spellings sent here
CanonicalName(name) ==
    IF name = "x-organization-id" THEN "X-Organization-ID"
    ELSE IF name = "x-tenant-id" THEN "X-Tenant-ID"
    ELSE IF name = "authorization" THEN "Authorization"
    ELSE IF name = "idempotency-key" THEN "Idempotency-Key"
    ELSE IF name = "x-correlation-id" THEN "X-Correlation-ID"
    ELSE IF name = "accept-language" THEN "Accept-Language"
    ELSE IF name = "x-timezone" THEN "X-Timezone"
    ELSE name

\* the lower-case spelling of a header name
LowerName(name) ==
    IF name = "X-Organization-ID" THEN "x-organization-id"
    ELSE IF name = "X-Tenant-ID" THEN "x-tenant-id"
    ELSE IF name = "Authorization" THEN "authorization"
    ELSE IF name = "Idempotency-Key" THEN "idempotency-key"
    ELSE IF name = "X-Correlation-ID" THEN "x-correlation-id"
    ELSE IF name = "Accept-Language" THEN "accept-language"
    ELSE IF name = "X-Timezone" THEN "x-timezone"
    ELSE name

\* the headers with the names in lowered written in lower case
Lowered(headers, lowered) ==
    [name \in {IF n \in lowered THEN LowerName(n) ELSE n : n \in DOMAIN headers}
        |-> headers[CanonicalName(name)]]

\* the headers with every name spelled as the code spells it
Canonical(headers) ==
    [name \in {CanonicalName(n) : n \in DOMAIN headers}
        |-> headers[CHOOSE n \in DOMAIN headers : CanonicalName(n) = name]]

FullHeaders ==
    HOrg1 @@ HBearer(TokenU1) @@ HKey @@ HCorrelation
        @@ ("Accept-Language" :> "fr-FR") @@ ("X-Timezone" :> "Europe/Paris")

CaseRequests ==
    {WithBody(Lowered(FullHeaders, lowered), Body1) :
        lowered \in {{}, DOMAIN FullHeaders}
                        \cup {{name} : name \in DOMAIN FullHeaders}}

CaseProcessAny ==
    \E raw_request \in CaseRequests : ProcessRequest(raw_request)

NextCase == Tick \/ CaseProcessAny

SpecCase == Init /\ [][NextCase]_vars

\* C32: header names are looked up without regard to letter case: a
\* request gets the outcome, and makes the state changes, that the same
\* request with its header names in the code's spelling would get and make
\* in the same state (same path, same limiter records, same stored keys,
\* same audit entry, and on success the same tenant, user, locale,
\* timezone and correlation id).
C32_HeaderCaseIgnored ==
    [][Len(history') = Len(history) + 1
       => LET run == history'[Len(history')]
              twin == process_request(
                          WithBody(Canonical(run.request.headers), Body1),
                          State)
          IN  /\ run.path = twin.path
              /\ request_counts' = twin.counts
              /\ DOMAIN idempotency_store' = DOMAIN twin.store
              /\ audit_log' = twin.log
              /\ run.path = "success" =>
                     /\ run.outcome.value.context.org_id
                            = twin.outcome.value.context.org_id
                     /\ run.outcome.value.context.user_id
                            = twin.outcome.value.context.user_id
                     /\ run.outcome.value.context.locale
                            = twin.outcome.value.context.locale
                     /\ run.outcome.value.context.timezone
                            = twin.outcome.value.context.timezone
                     /\ run.outcome.value.context.correlation_id
                            = twin.outcome.value.context.correlation_id]_vars


(***************************************************************************)
(* Requests whose tenant header names the tenant of the credential, and    *)
(* requests whose tenant header names another tenant.                      *)
(***************************************************************************)
CrossTenantRequests ==
    { WithHeaders(HOrg1 @@ HBearer(TokenU1)),
      WithHeaders(HOrg2 @@ HBearer(TokenU2)),
      WithHeaders(HOrg2 @@ HBearer(TokenU1)),
      WithHeaders(HOrg1 @@ HBearer(TokenU2)),
      WithBody(HOrg2 @@ HBearer(TokenU1) @@ HKey, Body1) }

CrossTenantProcessAny ==
    \E raw_request \in CrossTenantRequests : ProcessRequest(raw_request)

NextCrossTenant == Tick \/ CrossTenantProcessAny

SpecCrossTenant == Init /\ [][NextCrossTenant]_vars

\* C33: whenever process_request returns the success shape, the tenant in
\* the returned context is the tenant (org_id) claim of the credential's
\* payload: a credential issued for one tenant gets no success context of
\* another tenant.
C33_TenantMatchesClaim ==
    \A i \in 1..Len(history) :
        history[i].path = "success"
            => history[i].outcome.value.context.org_id
                   = authenticate_request(history[i].request.headers)
                         .payload.org_id


(***************************************************************************)
(* Failures and the idempotency store, under Spec.                         *)
(***************************************************************************)
\* C34: a call whose request carries an Idempotency-Key and that fails, at
\* whatever stage, leaves the store as it was; so a call is answered from
\* the store only when an earlier call with its key succeeded.
C34_FailuresNotStored ==
    [][Len(history') = Len(history) + 1
       => LET run == history'[Len(history')]
          IN  /\ (/\ KeyOf(run.request) # None
                  /\ run.path \in {"tenant", "auth", "rate", "error"})
                     => idempotency_store' = idempotency_store
              /\ run.path = "replay"
                     => \E i \in 1..Len(history) :
                            /\ history[i].path = "success"
                            /\ KeyOf(history[i].request) = KeyOf(run.request)]_vars

\* C34 witness: a request with a key failed, and a later request with the
\* same key ran the whole pipeline and succeeded.
C34_Witness ==
    \E i, j \in 1..Len(history) :
        /\ i < j
        /\ history[i].path \in {"tenant", "auth", "rate", "error"}
        /\ history[j].path = "success"
        /\ KeyOf(history[i].request) # None
        /\ KeyOf(history[i].request) = KeyOf(history[j].request)
        /\ \A k \in 1..(j - 1) : history[k].path # "success"


(***************************************************************************)
(* Recovery and the zero limit, under SpecRL.                              *)
(***************************************************************************)
\* C35: a check of a key made window_seconds or more after the latest
\* admitted check of that key is admitted, however many checks of the key
\* were rejected in between.
C35_LimitedKeyRecovers ==
    \A i, k \in 1..Len(rl_trace) :
        (/\ i < k
         /\ rl_trace[i].key = rl_trace[k].key
         /\ ~rl_trace[i].limited
         /\ \A j \in (i + 1)..(k - 1) :
                rl_trace[j].key = rl_trace[i].key => rl_trace[j].limited
         /\ rl_trace[k].t >= rl_trace[i].t + window_seconds)
        => ~rl_trace[k].limited

\* C35 witness: a key was admitted, then rejected at a later time, and
\* then admitted again a full window after its latest admission.
C35_Witness ==
    \E i, j, k \in 1..Len(rl_trace) :
        /\ i < j
        /\ j < k
        /\ rl_trace[i].key = rl_trace[j].key
        /\ rl_trace[j].key = rl_trace[k].key
        /\ ~rl_trace[i].limited
        /\ rl_trace[j].limited
        /\ rl_trace[j].t > rl_trace[i].t
        /\ ~rl_trace[k].limited
        /\ rl_trace[k].t >= rl_trace[i].t + window_seconds
        /\ \A l \in (i + 1)..(k - 1) :
               rl_trace[l].key = rl_trace[i].key => rl_trace[l].limited


\* C37: with max_requests = 0 the limiter admits nothing: every check is
\* rejected, the first check of a key that has no record included.
C37_ZeroLimitAdmitsNothing ==
    max_requests = 0 =>
        \A i \in 1..Len(rl_trace) : rl_trace[i].limited

(***************************************************************************)
(* Concurrent checks of different keys, under SpecRLConc.                  *)
(***************************************************************************)
\* C36: concurrent is_rate_limited calls for different keys within one
\* window do not interfere: once the calls have returned, every key that
\* was checked has a record, and its count is the number of admitted
\* checks of that key.
C36_DistinctKeysDoNotInterfere ==
    (/\ \A th \in Threads : threads[th].pc = "idle"
     /\ \A i, j \in 1..Len(rl_trace) :
            i # j => rl_trace[i].key # rl_trace[j].key)
    => \A i \in 1..Len(rl_trace) :
           /\ rl_trace[i].key \in DOMAIN request_counts
           /\ request_counts[rl_trace[i].key][1] =
                  Cardinality({j \in 1..Len(rl_trace) :
                                  /\ rl_trace[j].key = rl_trace[i].key
                                  /\ ~rl_trace[j].limited})


(***************************************************************************)
(* More properties of check_permission, under SpecPerm.                    *)
(***************************************************************************)
\* C38: for every role, known or not, every one of the four actions and
\* every one of the six targets, check_permission returns a boolean and
\* raises nothing, a learner writing progress included.
C38_CheckPermissionReturnsBoolean ==
    \A i \in 1..Len(history) :
        (/\ history[i].action \in PermissionAction
         /\ history[i].resource \in PermissionTarget)
        => /\ history[i].outcome.kind = "return"
           /\ history[i].outcome.value \in BOOLEAN

\* C39: a call whose action is none of read, write, delete and execute, or
\* whose resource is none of the six targets, is denied whatever the role.
C39_UnknownVocabularyDenied ==
    \A i \in 1..Len(history) :
        (\/ Lower(history[i].action) \notin PermissionAction
         \/ Lower(history[i].resource) \notin PermissionTarget)
        => history[i].outcome = Return(FALSE)


(***************************************************************************)
(* AsyncTaskService, src/infrastructure/async_tasks/service.py.  A Task is *)
(* a record keyed by its id; task_queue and active_tasks hold ids.  The    *)
(* event loop runs the coroutines of `ready` first in, first out, each up  *)
(* to its next suspension; callers of create_task and cancel_task are      *)
(* coroutines of their own and run between any two of them.                *)
(***************************************************************************)
MaxTasks == 2
MaxCancels == 2

TaskStatus == {"pending", "running", "completed", "failed", "cancelled"}

TaskPriority == [LOW |-> 1, MEDIUM |-> 2, HIGH |-> 3, CRITICAL |-> 4]

\* a task's function: a plain callable or a coroutine function that suspends
TaskFunctions == {"sync", "coro"}

\* what one call of a task's function ends with
FunctionOutcomes == {"return", "raise"}

TaskPriorities == {TaskPriority.MEDIUM, TaskPriority.HIGH}

TaskMaxRetries == {0, 1}

max_concurrent_tasks == 10

TaskIds == {Uuid4(n) : n \in 0..(MaxTasks - 1)}

Task(id, function, priority, max_retries, created_at) ==
    [id |-> id, function |-> function, priority |-> priority,
     created_at |-> created_at, scheduled_at |-> None, started_at |-> None,
     completed_at |-> None, status |-> "pending", result |-> None,
     error |-> None, retries |-> 0, max_retries |-> max_retries]

\* the service's mutable state, as the pure operators below pass it on
TaskState ==
    [tasks |-> tasks, task_queue |-> task_queue,
     active_tasks |-> active_tasks, ready |-> ready]

ProcessQueueCoroutine == [coroutine |-> "_process_queue"]

ExecuteTaskCoroutine(id) == [coroutine |-> "_execute_task", task |-> id]

\* `task in list`
InList(list, id) == \E i \in 1..Len(list) : list[i] = id

\* list.remove(task): the first occurrence goes
RECURSIVE ListRemove(_, _)
ListRemove(list, id) ==
    IF list = <<>> THEN <<>>
    ELSE IF Head(list) = id THEN Tail(list)
    ELSE <<Head(list)>> \o ListRemove(Tail(list), id)

\* line 90: list.sort is stable, higher priority first
SortByPriority(queue, tks) ==
    SelectSeq(queue, LAMBDA id : tks[id].priority = TaskPriority.CRITICAL)
    \o SelectSeq(queue, LAMBDA id : tks[id].priority = TaskPriority.HIGH)
    \o SelectSeq(queue, LAMBDA id : tks[id].priority = TaskPriority.MEDIUM)
    \o SelectSeq(queue, LAMBDA id : tks[id].priority = TaskPriority.LOW)

\* lines 84-90
add_to_queue(queue, tks, id) == SortByPriority(Append(queue, id), tks)

\* lines 92-105: no await inside, so the loop runs in one piece
RECURSIVE process_queue(_, _)
process_queue(S, t) ==
    IF S.task_queue # <<>> /\ Len(S.active_tasks) < max_concurrent_tasks
    THEN process_queue(
             [tasks |-> [S.tasks EXCEPT ![Head(S.task_queue)].status = "running",
                                        ![Head(S.task_queue)].started_at = t],
              task_queue |-> Tail(S.task_queue),
              active_tasks |-> Append(S.active_tasks, Head(S.task_queue)),
              ready |-> Append(S.ready,
                               ExecuteTaskCoroutine(Head(S.task_queue)))],
             t)
    ELSE S

\* lines 121-143: what the function's outcome does to the task
execute_task_outcome(S, id, outcome, t) ==
    IF outcome = "return"
    THEN [S EXCEPT !.tasks[id].result = "result",
                   !.tasks[id].status = "completed",
                   !.tasks[id].completed_at = t]
    ELSE IF S.tasks[id].retries < S.tasks[id].max_retries
    THEN [S EXCEPT !.tasks[id].retries = @ + 1,
                   !.tasks[id].status = "pending",
                   !.tasks[id].started_at = None,
                   !.tasks[id].completed_at = None,
                   !.tasks[id].error = None,
                   !.task_queue = add_to_queue(@, S.tasks, id)]
    ELSE [S EXCEPT !.tasks[id].error = "error",
                   !.tasks[id].status = "failed",
                   !.tasks[id].completed_at = t]

\* lines 145-148
execute_task_finally(S, id) ==
    IF InList(S.active_tasks, id)
    THEN [S EXCEPT !.active_tasks = ListRemove(@, id)]
    ELSE S

\* lines 121-151, from the function's outcome to the end of _execute_task
execute_task_end(S, id, outcome, t) ==
    process_queue(execute_task_finally(execute_task_outcome(S, id, outcome, t),
                                       id), t)

\* line 113
execute_task_begin(S, id) == [S EXCEPT !.tasks[id].status = "running"]

SetTaskState(S) ==
    /\ tasks' = S.tasks
    /\ task_queue' = S.task_queue
    /\ active_tasks' = S.active_tasks
    /\ ready' = S.ready

TaskOthers == <<now, trail, uuid_counter, max_requests, window_seconds,
                request_counts, idempotency_store, audit_log, verifier_calls,
                rl_trace, threads>>

\* lines 58-82
CreateTask(function, priority, max_retries) ==
    /\ uuid_counter < MaxTasks
    /\ uuid_counter' = uuid_counter + 1
    /\ \E id \in {Uuid4(uuid_counter)} :
           /\ tasks' = (id :> Task(id, function, priority, max_retries, now))
                       @@ tasks
           /\ task_queue' = add_to_queue(task_queue, tasks', id)
    /\ ready' = Append(ready, ProcessQueueCoroutine)
    /\ UNCHANGED <<active_tasks, awaiting, history, now, trail, max_requests,
                   window_seconds, request_counts, idempotency_store,
                   audit_log, verifier_calls, rl_trace, threads>>

CreateTaskAny ==
    \E function \in TaskFunctions, priority \in TaskPriorities,
       max_retries \in TaskMaxRetries :
        CreateTask(function, priority, max_retries)

\* the event loop runs a scheduled _process_queue, lines 92-105
RunProcessQueue ==
    /\ ready # <<>>
    /\ Head(ready) = ProcessQueueCoroutine
    /\ SetTaskState(process_queue([TaskState EXCEPT !.ready = Tail(@)], now))
    /\ UNCHANGED <<awaiting, history, TaskOthers>>

\* the event loop runs a scheduled _execute_task of a plain callable,
\* lines 107-151 in one piece
ExecuteTaskSync(outcome) ==
    /\ ready # <<>>
    /\ Head(ready).coroutine = "_execute_task"
    /\ tasks[Head(ready).task].function = "sync"
    /\ SetTaskState(execute_task_end(
           execute_task_begin([TaskState EXCEPT !.ready = Tail(@)],
                              Head(ready).task),
           Head(ready).task, outcome, now))
    /\ UNCHANGED <<awaiting, history, TaskOthers>>

ExecuteTaskSyncAny == \E outcome \in FunctionOutcomes : ExecuteTaskSync(outcome)

\* the event loop runs a scheduled _execute_task of a coroutine function,
\* lines 107-117: the execution suspends in `await task.function(...)`
ExecuteTaskAwait ==
    /\ ready # <<>>
    /\ Head(ready).coroutine = "_execute_task"
    /\ tasks[Head(ready).task].function = "coro"
    /\ SetTaskState(execute_task_begin([TaskState EXCEPT !.ready = Tail(@)],
                                       Head(ready).task))
    /\ awaiting' = awaiting \cup {Head(ready).task}
    /\ UNCHANGED <<history, TaskOthers>>

\* the awaited function ends and the execution goes on, lines 117-151
ExecuteTaskResume(id, outcome) ==
    /\ id \in awaiting
    /\ awaiting' = awaiting \ {id}
    /\ SetTaskState(execute_task_end(TaskState, id, outcome, now))
    /\ UNCHANGED <<history, TaskOthers>>

ExecuteTaskResumeAny ==
    \E id \in TaskIds, outcome \in FunctionOutcomes :
        ExecuteTaskResume(id, outcome)

\* lines 229-252
cancel_task(S, task_id, t) ==
    IF task_id \notin DOMAIN S.tasks
    THEN [state |-> S, value |-> FALSE]
    ELSE IF S.tasks[task_id].status \in {"completed", "failed", "cancelled"}
    THEN [state |-> S, value |-> FALSE]
    ELSE [state |->
              [S EXCEPT !.tasks[task_id].status = "cancelled",
                        !.tasks[task_id].completed_at = t,
                        !.task_queue = IF InList(@, task_id)
                                       THEN ListRemove(@, task_id) ELSE @,
                        !.active_tasks = IF InList(@, task_id)
                                         THEN ListRemove(@, task_id) ELSE @],
          value |-> TRUE]

CancelTask(task_id) ==
    /\ Len(history) < MaxCancels
    /\ \E call \in {cancel_task(TaskState, task_id, now)} :
           /\ SetTaskState(call.state)
           /\ history' = Append(history,
                  [call |-> "cancel_task", task_id |-> task_id,
                   outcome |-> Return(call.value)])
    /\ UNCHANGED <<awaiting, TaskOthers>>

CancelTaskAny ==
    \E task_id \in TaskIds \cup {"missing"} : CancelTask(task_id)

\* the clock stands still here: every timestamp of a task reads the same
NextTasks ==
    \/ CreateTaskAny
    \/ RunProcessQueue
    \/ ExecuteTaskSyncAny
    \/ ExecuteTaskAwait
    \/ ExecuteTaskResumeAny
    \/ CancelTaskAny

SpecTasks == Init /\ [][NextTasks]_vars

\* C40: once cancel_task has returned True for a task, the task's status is
\* CANCELLED in every later state: an execution already in flight sets it
\* neither to RUNNING, COMPLETED or FAILED nor back to PENDING for a retry.
C40_CancellationIsFinal ==
    \A i \in 1..Len(history) :
        history[i].outcome = Return(TRUE)
        => tasks[history[i].task_id].status = "cancelled"


====
